---------------------------- MODULE Spec2Model ----------------------------
(***************************************************************************)
(* A model of the quizzer extension's response parsers:                    *)
(*   - server/quiz/parser.ts : parseQuizResponse and the three formats     *)
(*     (fenced JSON, markdown, structured text) with validateQuiz;         *)
(*   - ResponseEvaluationService : parseEvaluationResponse and             *)
(*     parseFollowUpResponse.                                              *)
(*                                                                         *)
(* A response text is modelled as the sequence of its lines (the text      *)
(* split at "\n").  Every line is one of a fixed alphabet of line shapes;  *)
(* each regular expression of the source is translated to the predicate    *)
(* it decides on these shapes, and each capture to the text it captures.   *)
(* The concrete text of a line is LineText(l).                             *)
(***************************************************************************)
EXTENDS Integers, Sequences, FiniteSets, TLC

VARIABLES
    response,      \* parseQuizResponse: the raw response text (its lines and fenced JSON)
    options,       \* parseQuizResponse: the ParsingOptions argument
    pc,            \* parseQuizResponse: the next format to try, or "done"
    result,        \* parseQuizResponse: the returned Quiz (or the thrown exception)
    evalResponse,  \* ResponseEvaluationService: the raw response text
    evalPc,        \* ResponseEvaluationService: "idle", "called" or "done"
    evalResult,    \* parseEvaluationResponse: the EvaluationResult returned (or thrown)
    followUpResult, \* parseFollowUpResponse: the FollowUpQuestionsResult returned (or thrown)
    requestMessages, \* sendMessageToClaudeWithRetry: the messages argument (content lengths)
    requestOptions,  \* sendMessageToClaudeWithRetry: the ClaudeRequestOptions argument
    currentBudget,   \* tokens.ts: the configured TokenBudget
    usageHistory,    \* tokens.ts: the usage ledger
    clock,           \* Date.now(), in days
    calls,           \* the invocations of sendMessageToClaude, in order of invocation
    attempt,         \* sendMessageToClaudeWithRetry: the loop variable
    lastError,       \* sendMessageToClaudeWithRetry: the last classified error
    wrapperPc,       \* sendMessageToClaudeWithRetry: "idle", "awaiting", "backoff", "returned" or "thrown"
    wrapperResult,   \* sendMessageToClaudeWithRetry: the response returned or the error thrown
    thrownError,     \* classifyApiError: the error argument
    classified,      \* classifyApiError: the ClaudeApiError returned
    backoffCount,    \* calculateBackoff: the retryCount argument
    backoffConfig,   \* calculateBackoff: the config argument
    backoffMs,       \* calculateBackoff: the delay returned
    controller,      \* which controller runs: "quiz" or "evaluation"
    listeners,       \* the controller's listeners array
    received,        \* the events each listener has been called with
    logged,          \* console.error of emitEvent: the listeners that threw, per status
    runPc,           \* generateQuiz / evaluateResponse: the await reached, "returned" or "rejected"
    runScore,        \* evaluateResponse: evaluationResult.scores.overall
    runResponse,      \* generateQuiz / evaluateResponse: the response returned
    articleContent, \* preprocessContent: the content argument (its chunks)
    preprocessingOptions, \* preprocessContent: the PreprocessingOptions argument
    processedContent, \* preprocessContent: the string returned
    preprocessPc, \* preprocessContent: "idle", "preprocess", "truncate" or "done"
    wrapperError, \* sendMessageToClaudeWithRetry: the error it rejected with
    caughtError, \* the error the controller's catch block received
    modelAnswer, \* generateQuiz: the content of the model's answer
    runQuiz, \* generateQuiz: the quiz of the response returned
    storedEvaluations, \* chrome.storage.local: the array under evaluations.<quizId>
    evaluationsBefore, \* that array when evaluateResponse was called
    evaluationCache, \* ResponseEvaluationService.cache, the entries of the Map
    cacheNow, \* Date.now() in milliseconds
    cacheExpiry, \* options.cacheExpiry in minutes
    inFlight, \* the requests awaiting sendMessageToClaudeWithRetry
    servedResult, \* what the last call of evaluateResponse that settled gave
    requestsMade \* the calls of evaluateResponse so far

vars ==
    <<response, options, pc, result, evalResponse, evalPc, evalResult, followUpResult,
      requestMessages, requestOptions, currentBudget, usageHistory, clock,
      calls, attempt, lastError, wrapperPc, wrapperResult,
      thrownError, classified, backoffCount, backoffConfig, backoffMs,
      controller, listeners, received, logged, runPc, runScore, runResponse,
      articleContent, preprocessingOptions, processedContent, preprocessPc,
      wrapperError, caughtError, modelAnswer, runQuiz, storedEvaluations, evaluationsBefore,
      evaluationCache, cacheNow, cacheExpiry, inFlight, servedResult, requestsMade>>

quizVars == <<response, options, pc, result>>
evalVars == <<evalResponse, evalPc, evalResult, followUpResult>>

\* The module state of client.ts and tokens.ts, and one request through
\* sendMessageToClaudeWithRetry
clientVars ==
    <<requestMessages, requestOptions, currentBudget, usageHistory, clock,
      calls, attempt, lastError, wrapperPc, wrapperResult>>

\* One call of classifyApiError and one of calculateBackoff
parserVars == <<thrownError, classified, backoffCount, backoffConfig, backoffMs>>

\* One run of QuizController.generateQuiz or EvaluationController.evaluateResponse
controllerVars ==
    <<controller, listeners, received, logged, runPc, runScore, runResponse>>

\* One call of preprocessContent or of truncateContent
preprocessVars == <<articleContent, preprocessingOptions, processedContent, preprocessPc>>

\* One request through a service and its controller
pipelineVars ==
    <<wrapperError, caughtError, modelAnswer, runQuiz, storedEvaluations,
      evaluationsBefore>>

\* The cache of ResponseEvaluationService and the requests it answers
cacheVars ==
    <<evaluationCache, cacheNow, cacheExpiry, inFlight, servedResult,
      requestsMade>>

\* What each part of the program leaves alone
notQuizVars == <<evalVars, clientVars, parserVars, controllerVars, preprocessVars, pipelineVars, cacheVars>>
notEvalVars == <<quizVars, clientVars, parserVars, controllerVars, preprocessVars, pipelineVars, cacheVars>>
notClientVars == <<quizVars, evalVars, parserVars, controllerVars, preprocessVars, pipelineVars, cacheVars>>
notParserVars == <<quizVars, evalVars, clientVars, controllerVars, preprocessVars, pipelineVars, cacheVars>>
notControllerVars == <<quizVars, evalVars, clientVars, parserVars, preprocessVars, pipelineVars, cacheVars>>
notPreprocessVars == <<evalVars, clientVars, parserVars, controllerVars, quizVars, pipelineVars, cacheVars>>
notPipelineVars == <<evalVars, clientVars, parserVars, controllerVars, preprocessVars, quizVars, cacheVars>>
notCacheVars == <<evalVars, clientVars, parserVars, controllerVars, preprocessVars, pipelineVars, quizVars>>

(***************************************************************************)
(* Bounds of the model.                                                    *)
(***************************************************************************)
\* longest free sequence of lines drawn over the line alphabet
MaxLines == 3
\* longest "questions" array of a fenced JSON block
MaxJsonQs == 3

(***************************************************************************)
(* Strings.  JavaScript's String.prototype.trim, toLowerCase and includes, *)
(* tabulated over the strings the model's inputs are built from.           *)
(***************************************************************************)
Trim(s) ==
    CASE s = "  " -> ""
      [] s = " What is X? " -> "What is X?"
      [] s = " London " -> "London"
      [] OTHER -> s

Lower(s) ==
    CASE s = "Multiple Choice" -> "multiple choice"
      [] s = "True/False" -> "true/false"
      [] s = "Fill in the blank" -> "fill in the blank"
      [] s = "TRUE" -> "true"
      [] s = "True" -> "true"
      [] s = "False" -> "false"
      [] s = "A" -> "a"
      [] s = "B" -> "b"
      [] s = "C" -> "c"
      [] s = "D" -> "d"
      [] s = "E" -> "e"
      [] s = "London" -> "london"
      [] s = "Berlin" -> "berlin"
      [] s = "Overall" -> "overall"
      [] s = "Score" -> "score"
      [] s = "Accuracy" -> "accuracy"
      [] s = "Clarity" -> "clarity"
      [] s = "Strengths" -> "strengths"
      [] s = "Areas for Improvement" -> "areas for improvement"
      [] s = "Improvement" -> "improvement"
      [] s = "Improvements" -> "improvements"
      [] s = "Misconceptions" -> "misconceptions"
      [] s = "Missing Elements" -> "missing elements"
      [] s = "Elements" -> "elements"
      [] s = "Explanation" -> "explanation"
      [] s = "Purpose" -> "purpose"
      [] s = "Targets" -> "targets"
      [] s = "Why these questions will help" -> "why these questions will help"
      [] s = "Clear" -> "clear"
      [] OTHER -> s

\* s.includes(w), for the strings s and the keywords w the source looks for
Includes(s, w) ==
    CASE s \in {"multiple choice", "multiple_choice"} -> w \in {"multiple", "choice"}
      [] s = "true/false" -> w \in {"true", "false"}
      [] s = "true_false" -> w \in {"true", "false"}
      [] s = "fill in the blank" -> w \in {"fill", "blank"}
      [] s = "fill_in_blank" -> w \in {"fill", "blank"}
      [] s = "true" -> w = "true"
      [] s = "false" -> w = "false"
      [] s = "missing element: chlorophyll" -> w = "missing"
      [] s = "misconception: chlorophyll" -> w = "misconception"
      [] OTHER -> FALSE

\* the index (A = 0 .. D = 3) a leading letter A-D of s stands for, -1 when s
\* starts with no such letter: /^([A-D])/i and charCodeAt(0) - 65
LeadingLetterIndex(s) ==
    CASE s \in {"A", "a"} -> 0
      [] s \in {"B", "b", "Berlin"} -> 1
      [] s \in {"C", "c"} -> 2
      [] s \in {"D", "d"} -> 3
      [] OTHER -> -1

\* /^[A-D]$/i
IsSingleLetter(s) == s \in {"A", "B", "C", "D", "a", "b", "c", "d"}

(***************************************************************************)
(* JSON values (the result of JSON.parse), as far as the parsers look at   *)
(* them: a tag t and the string, number, array or map it carries.          *)
(***************************************************************************)
JUndef == [t |-> "undefined", s |-> "", n |-> 0, a |-> <<>>, m |-> {}]
JNull == [t |-> "null", s |-> "", n |-> 0, a |-> <<>>, m |-> {}]
JStr(s) == [t |-> "string", s |-> s, n |-> 0, a |-> <<>>, m |-> {}]
JNum(n) == [t |-> "number", s |-> "", n |-> n, a |-> <<>>, m |-> {}]
JArr(a) == [t |-> "array", s |-> "", n |-> 0, a |-> a, m |-> {}]
\* an object used as a map: m is its set of entries [k |-> key, v |-> number]
JMap(m) == [t |-> "object", s |-> "", n |-> 0, a |-> <<>>, m |-> m]

\* JavaScript truthiness
Truthy(v) ==
    CASE v.t \in {"undefined", "null"} -> FALSE
      [] v.t = "string" -> v.s # ""
      [] v.t = "number" -> v.n # 0
      [] OTHER -> TRUE

\* an element of a "questions" array: an object with these fields, or not an object
QObj(id, type, text, opts, ans, expl) ==
    [isObject |-> TRUE, id |-> id, type |-> type, text |-> text,
     options |-> opts, correctAnswer |-> ans, explanation |-> expl]
QNonObj == [isObject |-> FALSE, id |-> JUndef, type |-> JUndef, text |-> JUndef,
            options |-> JUndef, correctAnswer |-> JUndef, explanation |-> JUndef]

(***************************************************************************)
(* QuizQuestion and Quiz (shared/schema), and the outcome of a call.       *)
(***************************************************************************)
Question(id, type, text, opts, ans, expl) ==
    [id |-> id, type |-> type, text |-> text,
     hasOptions |-> Len(opts) > 0, options |-> opts,
     correctAnswer |-> ans,
     hasExplanation |-> expl # "", explanation |-> expl]

NoQuestion == Question(0, "", "", <<>>, "", "")

\* what a function call produced: a value ("ok"), null, or a thrown exception
Ok(v) == [tag |-> "ok", v |-> v]

QuizOf(qs) == [questions |-> qs, hasError |-> FALSE, error |-> ""]
ErrorQuiz(msg) == [questions |-> <<>>, hasError |-> TRUE, error |-> msg]
NoQuiz == QuizOf(<<>>)

QuestionTypes == {"multiple_choice", "open_ended", "true_false", "fill_in_blank"}

(***************************************************************************)
(* normalizeQuestionType                                                   *)
(***************************************************************************)
normalizeQuestionType(type) ==
    LET lowerType == Lower(type) IN
    IF Includes(lowerType, "multiple") \/ Includes(lowerType, "choice")
    THEN "multiple_choice"
    ELSE IF Includes(lowerType, "true") /\ Includes(lowerType, "false")
    THEN "true_false"
    ELSE IF Includes(lowerType, "fill") /\ Includes(lowerType, "blank")
    THEN "fill_in_blank"
    ELSE "open_ended"


(***************************************************************************)
(* normalizeQuestion: one element of the JSON "questions" array to a       *)
(* QuizQuestion, null, or a TypeError (a truthy type that is no string has *)
(* no toLowerCase).                                                        *)
(***************************************************************************)
Null == [tag |-> "null", v |-> NoQuestion]
Threw == [tag |-> "threw", v |-> NoQuestion]

normalizeQuestion(question) ==
    IF ~question.isObject THEN Null
    ELSE IF ~Truthy(question.text) \/ question.text.t # "string" THEN Null
    ELSE IF Truthy(question.type) /\ question.type.t # "string" THEN Threw
    ELSE Ok(Question(
        IF question.id.t = "number" THEN question.id.n ELSE 0,
        normalizeQuestionType(IF Truthy(question.type) THEN question.type.s
                              ELSE "open_ended"),
        Trim(question.text.s),
        IF question.options.t = "array" /\ Len(question.options.a) > 0
        THEN [i \in 1..Len(question.options.a) |-> Trim(question.options.a[i])]
        ELSE <<>>,
        IF question.correctAnswer.t = "string"
        THEN Trim(question.correctAnswer.s) ELSE "",
        IF question.explanation.t = "string"
           /\ Len(Trim(question.explanation.s)) > 0
        THEN Trim(question.explanation.s) ELSE ""))

(***************************************************************************)
(* The fenced JSON block of a response, after the two clean-up replaces    *)
(* and JSON.parse: whether it parses, whether parsed.questions is an       *)
(* array, and that array.                                                  *)
(***************************************************************************)
Json(parses, hasQuestions, questions) ==
    [parses |-> parses, hasQuestions |-> hasQuestions, questions |-> questions]
NoJson == Json(FALSE, FALSE, <<>>)

NullQuiz == [tag |-> "null", v |-> NoQuiz]
ThrewQuiz == [tag |-> "threw", v |-> NoQuiz]

\* response.match(/'''(?:json)?\s*({[\s\S]*?})\s*'''/)
HasFence(lines) == \E i \in 1..Len(lines) : lines[i].k = "fence"

\* the body of parseJSONResponse's try block
parseJSONBody(resp) ==
    IF ~HasFence(resp.lines) THEN NullQuiz
    ELSE IF ~resp.json.parses THEN ThrewQuiz
    ELSE IF ~resp.json.hasQuestions THEN NullQuiz
    ELSE LET normalized == [i \in 1..Len(resp.json.questions) |->
                               normalizeQuestion(resp.json.questions[i])]
             validQuestions == SelectSeq(normalized, LAMBDA r : r.tag # "null")
         IN  IF \E i \in 1..Len(normalized) : normalized[i].tag = "threw"
             THEN ThrewQuiz
             ELSE Ok(QuizOf([i \in 1..Len(validQuestions) |-> validQuestions[i].v]))

\* try { ... } catch (error) { return null; }
CatchToNull(r) == IF r.tag = "threw" THEN NullQuiz ELSE r

\* (mutant) parseJSONResponse without its try/catch
parseJSONResponse_NoCatch(resp) == parseJSONBody(resp)

parseJSONResponse(resp) == CatchToNull(parseJSONBody(resp))

(***************************************************************************)
(* validateQuiz                                                            *)
(***************************************************************************)
\* the destructuring defaults of ParsingOptions
OptionOr(field, default) == IF field = "undefined" THEN default ELSE field = "true"
validateQuestionsOf(opts) == OptionOr(opts.validateQuestions, TRUE)
requireExplanationsOf(opts) == OptionOr(opts.requireExplanations, FALSE)
normalizeAnswersOf(opts) == OptionOr(opts.normalizeAnswers, TRUE)

\* q.id after "Fix question ID if needed"; index counts from 0
fixedId(q, index) == IF q.id = 0 THEN index + 1 ELSE q.id

\* q.type after "Validate question type"
fixedType(q) ==
    IF q.type = "" \/ q.type \notin QuestionTypes
    THEN normalizeQuestionType(IF q.type = "" THEN "open_ended" ELSE q.type)
    ELSE q.type

\* (mutant) the floor of two options written as a floor of one
invalidMultipleChoice_OffByOne(q) ==
    fixedType(q) = "multiple_choice" /\ (~q.hasOptions \/ Len(q.options) < 1)

\* "Validate options for multiple choice questions"
invalidMultipleChoice(q) ==
    fixedType(q) = "multiple_choice" /\ (~q.hasOptions \/ Len(q.options) < 2)

\* "Check for required explanation"
missingExplanation(q, opts) ==
    requireExplanationsOf(opts)
    /\ (~q.hasExplanation \/ Len(Trim(q.explanation)) = 0)

\* the callback of quiz.questions.map: the question as fixed, or null
validateQuestion(q, index, opts) ==
    IF invalidMultipleChoice(q) THEN Null
    ELSE IF missingExplanation(q, opts) THEN Null
    ELSE Ok([q EXCEPT
               !.id = fixedId(q, index),
               !.type = fixedType(q),
               !.correctAnswer =
                   IF fixedType(q) = "true_false" /\ normalizeAnswersOf(opts)
                   THEN IF Includes(Lower(q.correctAnswer), "true")
                        THEN "True" ELSE "False"
                   ELSE q.correctAnswer])

\* (mutant) validateQuiz without its "validQuestions.length === 0" branch
validateQuiz_NoEmptyCheck(quiz, opts) ==
    IF ~validateQuestionsOf(opts) THEN quiz
    ELSE LET mapped == [i \in 1..Len(quiz.questions) |->
                           validateQuestion(quiz.questions[i], i - 1, opts)]
             validQuestions == SelectSeq(mapped, LAMBDA r : r.tag # "null")
         IN  QuizOf([i \in 1..Len(validQuestions) |-> validQuestions[i].v])

validateQuiz(quiz, opts) ==
    IF ~validateQuestionsOf(opts) THEN quiz
    ELSE LET mapped == [i \in 1..Len(quiz.questions) |->
                           validateQuestion(quiz.questions[i], i - 1, opts)]
             validQuestions == SelectSeq(mapped, LAMBDA r : r.tag # "null")
         IN  IF Len(validQuestions) = 0
             THEN ErrorQuiz("No valid questions found after validation")
             ELSE QuizOf([i \in 1..Len(validQuestions) |-> validQuestions[i].v])

(***************************************************************************)
(* Lines of a response.  A line has a kind k, an optional question-number  *)
(* prefix q ("Q1.", "Q2.", "Q1:"), a tag t and a payload s:                *)
(*   blank   ""                                                            *)
(*   text    s                                                             *)
(*   fence   '''json {...} '''        (the JSON is response.json)          *)
(*   mdhead  ## Question 1<s>                                              *)
(*   mdtype  **Type**: <t>                                                 *)
(*   mdans   **Correct Answer**: <s>                                       *)
(*   mdexp   **Explanation**: <s>                                          *)
(*   opt     <t> <s>                  t one of A. B. C. D. (a) (b)         *)
(*   opthdr  Options:                                                      *)
(*   sttype  [Type: <t>] <s>                                               *)
(*   stans   <t>: <s>                 t one of Correct Answer, Answer      *)
(*   stexp   Explanation: <s>                                              *)
(* No line has leading or trailing white space.                            *)
(***************************************************************************)
Line(k, q, t, s) == [k |-> k, q |-> q, t |-> t, s |-> s]
Blank == Line("blank", "", "", "")
Text(s) == Line("text", "", "", s)
Fence == Line("fence", "", "", "")

Spaced(a, b) == IF a = "" THEN b ELSE IF b = "" THEN a ELSE a \o " " \o b

\* (a TLA+ string holds no backquote: ''' stands for the three backquotes)
FenceText(json) ==
    IF ~json.parses THEN "'''json {oops} '''"
    ELSE IF ~json.hasQuestions THEN "'''json {\"quiz\": 1} '''"
    ELSE "'''json {\"questions\": [...]} '''"

BodyText(l, json) ==
    CASE l.k = "blank" -> ""
      [] l.k = "text" -> l.s
      [] l.k = "fence" -> FenceText(json)
      [] l.k = "mdhead" -> "## Question 1" \o l.s
      [] l.k = "mdtype" -> "**Type**: " \o l.t
      [] l.k = "mdans" -> "**Correct Answer**: " \o l.s
      [] l.k = "mdexp" -> "**Explanation**: " \o l.s
      [] l.k = "opt" -> Spaced(l.t, l.s)
      [] l.k = "opthdr" -> "Options:"
      [] l.k = "sttype" -> Spaced("[Type: " \o l.t \o "]", l.s)
      [] l.k = "stans" -> l.t \o ": " \o l.s
      [] l.k = "stexp" -> "Explanation: " \o l.s

\* the text of a line
LineText(l, json) == Spaced(l.q, BodyText(l, json))

RECURSIVE JoinLines(_)
\* strings.join("\n")
JoinLines(strs) ==
    IF Len(strs) = 0 THEN ""
    ELSE IF Len(strs) = 1 THEN strs[1]
    ELSE strs[1] \o "\n" \o JoinLines(Tail(strs))

\* the first index of seq at or after from that satisfies Test, 0 when there is none
FirstIndexFrom(seq, from, Test(_)) ==
    IF \E i \in from..Len(seq) : Test(seq[i])
    THEN CHOOSE i \in from..Len(seq) :
             Test(seq[i]) /\ \A j \in from..(i - 1) : ~Test(seq[j])
    ELSE 0

FirstIndex(seq, Test(_)) == FirstIndexFrom(seq, 1, Test)

IsBlankLine(l) == l.k = "blank" /\ l.q = ""

\* lines[from..to] are all blank
AllBlank(lines, from, to) == \A i \in from..to : IsBlankLine(lines[i])

\* String.prototype.trim on a multi-line text: leading and trailing blank lines go
TrimLines(lines) ==
    IF AllBlank(lines, 1, Len(lines)) THEN <<>>
    ELSE LET first == FirstIndex(lines, LAMBDA l : ~IsBlankLine(l))
             last == CHOOSE i \in 1..Len(lines) :
                         ~IsBlankLine(lines[i]) /\ AllBlank(lines, i + 1, Len(lines))
         IN  SubSeq(lines, first, last)

(***************************************************************************)
(* parseMarkdownResponse                                                   *)
(***************************************************************************)
\* the places response.split(/#{1,3}\s*Question\s+\d+/i) splits at
MdHeads(lines) == {i \in 1..Len(lines) : lines[i].k = "mdhead"}

\* the lines of the section that the heading at line h opens: the rest of the
\* heading's line, the lines up to the next heading, and the empty string
\* that the newline before the next heading leaves
MdSection(lines, h) ==
    LET later == {i \in MdHeads(lines) : i > h}
        next == IF later = {} THEN Len(lines) + 1
                ELSE CHOOSE i \in later : \A j \in later : i <= j
    IN  <<IF lines[h].s = "" THEN Blank ELSE Text(lines[h].s)>>
        \o SubSeq(lines, h + 1, next - 1)
        \o (IF later = {} THEN <<>> ELSE <<Blank>>)

\* /^[A-D]\.\s+/.test(line)
IsMdOptionLine(l) ==
    l.k = "opt" /\ l.q = "" /\ l.t \in {"A.", "B.", "C.", "D."} /\ l.s # ""

\* the question of one section; index counts from 0
parseMarkdownSection(section, index, json) ==
    LET typeLine == FirstIndex(section, LAMBDA l : l.k = "mdtype")
        type == IF typeLine > 0 THEN Trim(Lower(section[typeLine].t))
                ELSE "open_ended"
        questionTextIndex ==
            IF typeLine > 0 THEN typeLine + 1
            ELSE FirstIndex(section, LAMBDA l : Len(LineText(l, json)) > 0)
        questionText ==
            IF questionTextIndex >= 1 /\ questionTextIndex <= Len(section)
            THEN LineText(section[questionTextIndex], json) ELSE ""
        optionLines == SelectSeq(section, IsMdOptionLine)
        opts == IF Includes(type, "multiple") \/ Includes(type, "choice")
                THEN [i \in 1..Len(optionLines) |-> Trim(optionLines[i].s)]
                ELSE <<>>
        correctLine == FirstIndex(section, LAMBDA l : l.k = "mdans")
        rawAnswer == IF correctLine > 0 THEN Trim(section[correctLine].s) ELSE ""
        letter == LeadingLetterIndex(rawAnswer)
        correctAnswer ==
            IF correctLine > 0 /\ Len(opts) > 0 /\ letter >= 0 /\ letter < Len(opts)
            THEN opts[letter + 1] ELSE rawAnswer
        \* /\*\*Explanation\*\*:\s*([^\n].+?)(?=\n\s*(?:#{1,3}|$))/is : the capture
        \* runs lazily to the first newline that only white space follows
        expLine == FirstIndex(section, LAMBDA l : l.k = "mdexp")
        expEnds == {j \in (expLine + 1)..Len(section) :
                        AllBlank(section, j, Len(section))}
        expEnd == CHOOSE j \in expEnds : \A i \in expEnds : j <= i
        explanation ==
            IF expLine > 0 /\ expEnds # {}
            THEN JoinLines(<<section[expLine].s>>
                     \o [i \in 1..(expEnd - 1 - expLine) |->
                            LineText(section[expLine + i], json)])
            ELSE ""
    IN  Question(index + 1, normalizeQuestionType(type), questionText,
                 opts, correctAnswer, explanation)

RECURSIVE SortedSeq(_)
\* the elements of a set of numbers in increasing order
SortedSeq(S) ==
    IF S = {} THEN <<>>
    ELSE LET m == CHOOSE x \in S : \A y \in S : x <= y
         IN  <<m>> \o SortedSeq(S \ {m})

parseMarkdownResponse(resp) ==
    LET heads == SortedSeq(MdHeads(resp.lines)) IN
    IF Len(heads) = 0 THEN NullQuiz
    ELSE Ok(QuizOf([i \in 1..Len(heads) |->
            parseMarkdownSection(MdSection(resp.lines, heads[i]), i - 1, resp.json)]))

(***************************************************************************)
(* parseStructuredResponse                                                 *)
(***************************************************************************)
\* (?:Q|Question)\s*\d+\. at the start of a line
IsMarker(l) == l.q \in {"Q1.", "Q2."}

\* the line without its question-number prefix
Unprefixed(l) == [l EXCEPT !.q = ""]

\* a cut-off piece of a line, as a line: the empty piece is the blank line
AsLine(l) == IF l.k = "text" /\ l.s = "" THEN Blank ELSE l

RECURSIVE SplitPoints(_, _)
\* The lines where response.split(/\n\s*(?:Q|Question)\s*\d+\.\s*/i) splits: the
\* marker needs a newline before it, so line 1 is none, and the \s* that ends
\* a match eats the newline before a marker that only blank text separates
\* from the previous match.  upto: the lines looked at so far.
SplitPoints(lines, upto) ==
    IF upto < 2 THEN {}
    ELSE LET before == SplitPoints(lines, upto - 1)
             eaten == \E m \in before :
                         /\ IsBlankLine(Unprefixed(lines[m]))
                         /\ AllBlank(lines, m + 1, upto - 1)
         IN  IF IsMarker(lines[upto]) /\ ~eaten
             THEN before \cup {upto} ELSE before

\* questionBlocks: the text before the first split point, then the text
\* after each split point
QuestionBlocks(lines) ==
    LET points == SortedSeq(SplitPoints(lines, Len(lines)))
        endOf(i) == IF i < Len(points) THEN points[i + 1] - 1 ELSE Len(lines)
    IN  <<SubSeq(lines, 1, IF Len(points) = 0 THEN Len(lines) ELSE points[1] - 1)>>
        \o [i \in 1..Len(points) |->
               <<Unprefixed(lines[points[i]])>>
               \o SubSeq(lines, points[i] + 1, endOf(i))]

\* the line holds a "]"
HasBracket(l, json) ==
    l.k = "sttype" \/ (l.k = "fence" /\ json.parses /\ json.hasQuestions)

\* what follows the first "]" on the line
AfterBracket(l) == IF l.k = "sttype" THEN AsLine(Text(l.s)) ELSE Text("} '''")

\* a line start that /\n\s*(?:Options|[A-D]\.|\([a-d]\)|[a-d]\))/i takes
IsOptionStart(l) == l.q = "" /\ l.k \in {"opt", "opthdr"}

\* /^[A-D]\.|\([a-d]\)|[a-d]\)|^[a-d]\)|\s+[A-D]\./i.test(line.trim())
PassesOptionTest(l) == l.q = "" /\ l.k = "opt"

\* what follows the text "Options" or the option marker that opened the section
AfterOptionStart(l) == IF l.k = "opthdr" THEN Text(":") ELSE AsLine(Text(l.s))

TextsOf(lines, json) == [i \in 1..Len(lines) |-> LineText(lines[i], json)]

\* questionText when the block has a type tag
structuredTextAfterType(block, json) ==
    LET bracket == FirstIndex(block, LAMBDA l : HasBracket(l, json))
        afterType == TrimLines(<<AfterBracket(block[bracket])>>
                               \o SubSeq(block, bracket + 1, Len(block)))
        firstBreak == FirstIndexFrom(afterType, 2, IsOptionStart)
    IN  IF Len(afterType) = 0 THEN ""
        ELSE IF firstBreak > 0
        THEN JoinLines(TextsOf(TrimLines(SubSeq(afterType, 1, firstBreak - 1)), json))
        ELSE LineText(afterType[1], json)

\* the options of a block whose type says multiple choice
structuredOptions(block) ==
    LET starts == {i \in 1..Len(block) :
                      \/ block[i].k = "opthdr" /\ block[i].q = ""
                      \/ i >= 2 /\ block[i].k = "opt" /\ block[i].q = ""}
        start == CHOOSE i \in starts : \A j \in starts : i <= j
        answer == FirstIndexFrom(block, start + 1,
                      LAMBDA l : l.k = "stans" /\ l.q = "")
        stop == IF answer > 0 THEN answer - 1 ELSE Len(block)
        optionSection == <<AfterOptionStart(block[start])>>
                         \o SubSeq(block, start + 1, stop)
        optionLines == SelectSeq(optionSection, PassesOptionTest)
        nonEmpty == SelectSeq(optionLines, LAMBDA l : Trim(l.s) # "")
    IN  IF starts = {} THEN <<>>
        ELSE [i \in 1..Len(nonEmpty) |-> Trim(nonEmpty[i].s)]

\* the question of one trimmed, non-empty block
parseStructuredBlock(block, id, json) ==
    LET typeLine == FirstIndex(block, LAMBDA l : l.k = "sttype")
        type == IF typeLine > 0 THEN Trim(Lower(block[typeLine].t))
                ELSE "open_ended"
        questionText == IF typeLine > 0 THEN structuredTextAfterType(block, json)
                        ELSE LineText(block[1], json)
        opts == IF Includes(type, "multiple") \/ Includes(type, "choice")
                THEN structuredOptions(block) ELSE <<>>
        correctLine == FirstIndex(block, LAMBDA l : l.k = "stans")
        rawAnswer == IF correctLine > 0 THEN Trim(block[correctLine].s) ELSE ""
        letter == LeadingLetterIndex(rawAnswer)
        correctAnswer ==
            IF /\ correctLine > 0 /\ Len(opts) > 0 /\ IsSingleLetter(rawAnswer)
               /\ letter >= 0 /\ letter < Len(opts)
            THEN opts[letter + 1] ELSE rawAnswer
        \* /(?:Explanation|Rationale):\s*([^\n].*?)(?=\n\s*(?:Q|Question)\s*\d+\.?|$)/is
        expLine == FirstIndex(block, LAMBDA l : l.k = "stexp")
        nextQ == FirstIndexFrom(block, expLine + 1, LAMBDA l : l.q # "")
        expStop == IF nextQ > 0 THEN nextQ - 1 ELSE Len(block)
        explanation ==
            IF expLine > 0
            THEN JoinLines(TextsOf(TrimLines(<<Text(block[expLine].s)>>
                     \o SubSeq(block, expLine + 1, expStop)), json))
            ELSE ""
    IN  Question(id, normalizeQuestionType(type), questionText,
                 opts, correctAnswer, explanation)

parseStructuredResponse(resp) ==
    LET questionBlocks == QuestionBlocks(resp.lines)
        startIndex == IF Len(TrimLines(questionBlocks[1])) > 0 THEN 0 ELSE 1
        \* the loop's i (from 0) for which the trimmed block is not empty
        kept == SelectSeq([i \in 1..Len(questionBlocks) |-> i - 1],
                    LAMBDA i : i >= startIndex
                               /\ Len(TrimLines(questionBlocks[i + 1])) > 0)
        questions == [n \in 1..Len(kept) |->
                         parseStructuredBlock(TrimLines(questionBlocks[kept[n] + 1]),
                                              kept[n] - startIndex + 1, resp.json)]
    IN  IF Len(questions) > 0 THEN Ok(QuizOf(questions)) ELSE NullQuiz

(***************************************************************************)
(* parseQuizResponse, one step per format tried.                           *)
(***************************************************************************)
Returned(quiz) == [threw |-> FALSE, quiz |-> quiz]
Thrown == [threw |-> TRUE, quiz |-> NoQuiz]
NoResult == Returned(NoQuiz)

\* what one format's attempt does to the call: return the validated quiz,
\* go on to the next format, or let an exception escape
Attempt(parsed, next) ==
    IF parsed.tag = "threw"
    THEN pc' = "done" /\ result' = Thrown
    ELSE IF parsed.tag = "ok" /\ Len(parsed.v.questions) > 0
    THEN pc' = "done" /\ result' = Returned(validateQuiz(parsed.v, options))
    ELSE pc' = next /\ result' = result

\* (mutant) the markdown result preferred to the JSON result
TryJSON_MarkdownFirst ==
    /\ pc = "json"
    /\ Attempt(IF parseMarkdownResponse(response).tag = "ok"
               THEN parseMarkdownResponse(response)
               ELSE parseJSONResponse(response), "markdown")
    /\ UNCHANGED <<response, options, notQuizVars>>

TryJSON ==
    /\ pc = "json"
    /\ Attempt(parseJSONResponse(response), "markdown")
    /\ UNCHANGED <<response, options, notQuizVars>>

TryMarkdown ==
    /\ pc = "markdown"
    /\ Attempt(parseMarkdownResponse(response), "structured")
    /\ UNCHANGED <<response, options, notQuizVars>>

TryStructured ==
    /\ pc = "structured"
    /\ Attempt(parseStructuredResponse(response), "failed")
    /\ UNCHANGED <<response, options, notQuizVars>>

AllFailed ==
    /\ pc = "failed"
    /\ pc' = "done"
    /\ result' = Returned(ErrorQuiz("Failed to parse quiz response into a structured format"))
    /\ UNCHANGED <<response, options, notQuizVars>>

(***************************************************************************)
(* The inputs of parseQuizResponse.                                        *)
(***************************************************************************)
ParsingOptions(v, r, n) ==
    [validateQuestions |-> v, requireExplanations |-> r, normalizeAnswers |-> n]

\* {} and every explicit setting of the three flags
AllParsingOptions ==
    {ParsingOptions("undefined", "undefined", "undefined")}
    \cup {ParsingOptions(v, r, n) : v \in {"true", "false"}, r \in {"true", "false"},
                                    n \in {"true", "false"}}

Response(lines, json) == [lines |-> lines, json |-> json]

QText == "What is the capital of England?"
JsonText == "Which city is the capital of England?"
Explanation == "London is the capital."
Capitals == <<"Paris", "London", "Rome", "Berlin">>

MdHead == Line("mdhead", "", "", "")
MdType(t) == Line("mdtype", "", t, "")
MdAnswer(s) == Line("mdans", "", "", s)
MdExplanation == Line("mdexp", "", "", Explanation)
Opt(marker, s) == Line("opt", "", marker, s)
OptHeader == Line("opthdr", "", "", "")
StAnswer(s) == Line("stans", "", "Correct Answer", s)
StExplanation == Line("stexp", "", "", Explanation)
LetterOption(i) == Opt(<<"A.", "B.", "C.", "D.">>[i], Capitals[i])
ParenOption(i) == Opt(<<"(a)", "(b)", "(c)", "(d)">>[i], Capitals[i])

\* the alphabet of the free line sequences
Alphabet ==
    { Blank, Text("Here is your quiz:"), Fence,
      MdHead, MdType("Multiple Choice"), MdAnswer("B"), MdExplanation,
      LetterOption(1),
      Line("text", "Q1.", "", QText),
      Line("blank", "Q1.", "", ""),
      Line("sttype", "Q2.", "Multiple Choice", QText),
      StAnswer("B"), StExplanation }

RECURSIVE SeqsUpTo(_, _)
\* the sequences over S of length at most n
SeqsUpTo(S, n) ==
    IF n = 0 THEN {<<>>}
    ELSE LET shorter == SeqsUpTo(S, n - 1)
         IN  shorter \cup {Append(q, x) : q \in shorter, x \in S}

FenceCount(lines) == Cardinality({i \in 1..Len(lines) : lines[i].k = "fence"})

\* elements of a JSON "questions" array
GoodElement(id, answer) ==
    QObj(id, JStr("Multiple Choice"), JStr(JsonText), JArr(Capitals), JStr(answer),
         JStr(Explanation))

CuratedElements ==
    { QNonObj,
      GoodElement(JNull, "B"),
      GoodElement(JNum(5), "London"),
      QObj(JNum(5), JUndef, JStr(" What is X? "), JUndef, JStr("42"), JUndef),
      QObj(JNum(-1), JStr("Multiple Choice"), JStr(QText), JArr(<<"Paris">>),
           JStr("A"), JUndef),
      QObj(JNum(2), JStr("True/False"), JUndef, JUndef, JStr("True"), JUndef) }

ProductElements ==
    { QObj(id, type, text, opts, ans, expl) :
        id \in {JNull, JNum(5)},
        type \in {JUndef, JStr("Multiple Choice"), JStr("True/False"), JNum(7)},
        text \in {JUndef, JStr("  "), JStr(" What is X? "), JNum(3)},
        opts \in {JUndef, JArr(<<"Paris">>), JArr(Capitals)},
        ans \in {JUndef, JStr("B"), JStr(" London "), JStr("TRUE")},
        expl \in {JUndef, JStr(Explanation), JStr("  ")} }

Malformed == Json(FALSE, FALSE, <<>>)
NoQuestionsArray == Json(TRUE, FALSE, <<>>)

\* the fenced blocks of the responses that are a fenced block only
JsonValues ==
    {Malformed, NoQuestionsArray}
    \cup {Json(TRUE, TRUE, qs) : qs \in SeqsUpTo(CuratedElements, MaxJsonQs)}
    \cup {Json(TRUE, TRUE, <<q>>) : q \in ProductElements}

\* the fenced blocks of the responses that hold other lines too
MixedJsonValues ==
    { Malformed, Json(TRUE, TRUE, <<>>),
      Json(TRUE, TRUE, <<GoodElement(JNull, "B")>>),
      Json(TRUE, TRUE, <<QObj(JNum(5), JNum(7), JStr(QText), JUndef, JUndef, JUndef)>>) }

FreeResponses ==
    {Response(ls, NoJson) : ls \in {l \in SeqsUpTo(Alphabet, MaxLines) : FenceCount(l) = 0}}
    \cup {Response(ls, j) : ls \in {l \in SeqsUpTo(Alphabet, MaxLines) : FenceCount(l) = 1},
                            j \in MixedJsonValues}

JsonResponses == {Response(<<Fence>>, j) : j \in JsonValues}

IfLine(cond, l) == IF cond THEN <<l>> ELSE <<>>

\* a one-question quiz in the markdown format
MdDocument(intro, type, nOpts, answer, expl, tail) ==
    IfLine(intro, Text("Here is your quiz:"))
    \o <<MdHead>>
    \o IfLine(type # "", MdType(type))
    \o <<Text(QText)>>
    \o [i \in 1..nOpts |-> LetterOption(i)]
    \o IfLine(answer # "", MdAnswer(answer))
    \o IfLine(expl, MdExplanation)
    \o IfLine(tail, Blank)

MdDocuments ==
    { Response(MdDocument(intro, type, nOpts, answer, expl, tail), NoJson) :
        intro \in BOOLEAN, type \in {"", "Multiple Choice", "True/False"},
        nOpts \in 0..4, answer \in {"", "B", "D", "London", "Berlin", "True"},
        expl \in BOOLEAN, tail \in BOOLEAN }

\* a one-question quiz in the structured-text format
StDocument(first, type, header, nOpts, paren, answer, expl) ==
    (CASE first = "intro" -> <<Text("Here is your quiz:")>>
       [] first = "blank" -> <<Blank>>
       [] OTHER -> <<>>)
    \o <<Line(IF type = "" THEN "text" ELSE "sttype", "Q1.", type, QText)>>
    \o IfLine(header, OptHeader)
    \o [i \in 1..nOpts |-> IF paren THEN ParenOption(i) ELSE LetterOption(i)]
    \o IfLine(answer # "", StAnswer(answer))
    \o IfLine(expl, StExplanation)

StDocuments ==
    { Response(StDocument(first, type, header, nOpts, paren, answer, expl), NoJson) :
        first \in {"intro", "blank", "none"},
        type \in {"", "Multiple Choice", "True/False"},
        header \in BOOLEAN, nOpts \in 0..4, paren \in BOOLEAN,
        answer \in {"", "B", "D", "London", "True"}, expl \in BOOLEAN }

\* the end-to-end scenario of the specification, section 8
EndToEndInput ==
    Response(
        << Line("text", "Q1:", "", "What is photosynthesis?"),
           Opt("A.", "A chemical reaction in animals"),
           Opt("B.", "The process plants use to convert light to energy"),
           Opt("C.", "A type of rock formation"),
           Opt("D.", "A weather pattern"),
           StAnswer("B"),
           Line("stexp", "", "",
                "Plants use chlorophyll to convert sunlight into chemical energy.") >>,
        NoJson)

QuizResponses ==
    FreeResponses \cup JsonResponses \cup MdDocuments \cup StDocuments
    \cup {EndToEndInput}

(***************************************************************************)
(* ResponseEvaluationService.  A response text is a sequence of atoms: the *)
(* pieces of text that the service's regular expressions tell apart.  The  *)
(* text itself is the concatenation of the atoms' strings.                 *)
(***************************************************************************)
Atom(k, s, n) == [k |-> k, s |-> s, n |-> n]
NL == Atom("nl", "\n", 0)
SP == Atom("sp", " ", 0)
Colon == Atom("colon", ":", 0)
\* prose: no colon, no list marker, no score and none of the section words
Words(s) == Atom("words", s, 0)
\* a word the section expressions look for, in the case the text writes it
Keyword(s) == Atom("keyword", s, 0)
\* a list marker: "-", "*", a bullet, or a number and a dot
Marker(s) == Atom("marker", s, 0)
\* (\d+(?:\.\d+)?)\s*(?:\/|\s*out of\s*)\s*10 with the number parseFloat reads
ScoreAtom(n, sep) == Atom("score", ToString(n) \o sep \o "10", n)
\* a fenced block that /'''(?:json)?\s*({[\s\S]*?})\s*'''/ matches
FenceAtom == Atom("fence", "'''json {...} '''", 0)

IsSpace(a) == a.k \in {"nl", "sp"}

Least(S) == CHOOSE x \in S : \A y \in S : x <= y

\* \s* from index from: the first index that is no white space, Len + 1 at the end
SkipSpace(text, from) ==
    LET rest == {i \in from..Len(text) : ~IsSpace(text[i])}
    IN  IF rest = {} THEN Len(text) + 1 ELSE Least(rest)

\* (?:\n|$) from index i: the newline that ends the line, Len + 1 on the last line
LineEnd(text, i) ==
    LET nls == {j \in i..Len(text) : text[j].k = "nl"}
    IN  IF nls = {} THEN Len(text) + 1 ELSE Least(nls)

RECURSIVE ConcatAtoms(_)
\* the string a sequence of atoms spells
ConcatAtoms(text) ==
    IF Len(text) = 0 THEN "" ELSE text[1].s \o ConcatAtoms(Tail(text))

\* String.prototype.trim
TrimAtoms(text) ==
    LET solid == {i \in 1..Len(text) : ~IsSpace(text[i])}
    IN  IF solid = {} THEN <<>>
        ELSE SubSeq(text, Least(solid),
                    CHOOSE i \in solid : \A j \in solid : j <= i)

TrimText(text) == ConcatAtoms(TrimAtoms(text))

\* ([A-Za-z_]+): the letters that stand right before a colon after atom a
LastWord(a) ==
    CASE a.k \notin {"words", "keyword"} -> ""
      [] a.s = "Areas for Improvement" -> "Improvement"
      [] a.s = "Missing Elements" -> "Elements"
      [] a.s = "Why these questions will help" -> "help"
      [] a.s = "Good use of examples" -> "examples"
      [] a.s = "Checks the key term" -> "term"
      [] a.s = "missing element" -> "element"
      [] a.s \in {"Overall", "Score", "Accuracy", "Clarity", "Strengths",
                  "Improvements", "Misconceptions", "Explanation",
                  "explanation", "Purpose", "Targets", "Clear", "misconception",
                  "chlorophyll"} -> a.s
      [] OTHER -> ""

FollowedByColon(text, i) == i + 1 <= Len(text) /\ text[i + 1].k = "colon"

\* name:\s*(\d+(?:\.\d+)?)\s*(?:\/|\s*out of\s*)\s*10 at atom i: the index of the
\* score matched, 0 when the expression does not match there
ScoreIndex(text, i) ==
    IF LastWord(text[i]) # "" /\ FollowedByColon(text, i)
    THEN LET j == SkipSpace(text, i + 2)
         IN  IF j <= Len(text) /\ text[j].k = "score" THEN j ELSE 0
    ELSE 0

IsWord(a, names) == a.k = "keyword" /\ Lower(a.s) \in names

\* the capture of /(?:bare|withColon:)([\s\S]*?)(?:stops|$)/i
SectionCapture(text, bare, withColon, stops) ==
    LET starts == {i \in 1..Len(text) :
                      \/ IsWord(text[i], bare)
                      \/ IsWord(text[i], withColon) /\ FollowedByColon(text, i)}
    IN  IF starts = {} THEN [found |-> FALSE, text |-> <<>>]
        ELSE LET i == Least(starts)
                 from == IF IsWord(text[i], bare) THEN i + 1 ELSE i + 2
                 ends == {j \in from..Len(text) : IsWord(text[j], stops)}
                 to == IF ends = {} THEN Len(text) ELSE Least(ends) - 1
             IN  [found |-> TRUE,
                  text |-> IF from <= to THEN SubSeq(text, from, to) ELSE <<>>]

(***************************************************************************)
(* extractBulletPoints                                                     *)
(***************************************************************************)
Numbered == {"1.", "2.", "3."}
BulletMarks == {"-", "*", "bullet"} \cup Numbered

RECURSIVE SplitBullets(_, _)
\* text.split(/(?:\r?\n|^)\s*(?:[-*]|\d+\.)\s*/), where the class also holds the
\* bullet character (the marker "bullet"); atStart says that the text still
\* begins where the whole string begins
SplitBullets(text, atStart) ==
    LET \* p: the newline (0: the start of the string) a match begins at
        begins == {p \in (IF atStart THEN 0 ELSE 1)..Len(text) :
                      /\ p = 0 \/ text[p].k = "nl"
                      /\ SkipSpace(text, p + 1) <= Len(text)
                      /\ text[SkipSpace(text, p + 1)].k = "marker"
                      /\ text[SkipSpace(text, p + 1)].s \in BulletMarks}
    IN  IF begins = {} THEN <<text>>
        ELSE LET p == Least(begins)
                 mark == SkipSpace(text, p + 1)
                 rest == SkipSpace(text, mark + 1)
             IN  <<IF p > 1 THEN SubSeq(text, 1, p - 1) ELSE <<>> >>
                 \o SplitBullets(IF rest <= Len(text)
                                 THEN SubSeq(text, rest, Len(text)) ELSE <<>>,
                                 FALSE)

extractBulletPoints(text) ==
    IF text = <<>> THEN <<>>
    ELSE LET points == SplitBullets(text, TRUE)
         IN  SelectSeq([i \in 1..Len(points) |-> TrimText(points[i])],
                       LAMBDA p : Len(p) > 0)

(***************************************************************************)
(* EvaluationResult and FollowUpQuestionsResult, and the fenced JSON       *)
(* object of an evaluation response as far as the validators read it.      *)
(***************************************************************************)
EvalResponse(text, json) == [text |-> text, json |-> json]

ScoresObj(overall, criteria) ==
    [t |-> "object", overall |-> overall, criteria |-> criteria]
\* "scores" absent, null or no object: optional chaining finds no property
NoScores(t) == [t |-> t, overall |-> JUndef, criteria |-> JUndef]

FeedbackObj(strengths, improvements, misconceptions, summary) ==
    [t |-> "object", strengths |-> strengths, improvements |-> improvements,
     misconceptions |-> misconceptions, summary |-> summary]
NoFeedback(t) ==
    [t |-> t, strengths |-> JUndef, improvements |-> JUndef,
     misconceptions |-> JUndef, summary |-> JUndef]

\* an element of a "followUpQuestions" array: an object, null, or a string
FollowUpObj(question, purpose, misconception, missingElement) ==
    [t |-> "object", question |-> question, purpose |-> purpose,
     targetedMisconception |-> misconception,
     targetedMissingElement |-> missingElement]
FollowUpNonObj(t) ==
    [t |-> t, question |-> JUndef, purpose |-> JUndef,
     targetedMisconception |-> JUndef, targetedMissingElement |-> JUndef]

\* "followUpQuestions": t is "array", "undefined" or "string"
FollowUpList(t, a) == [t |-> t, a |-> a]

EvalJson(parses, scores, feedback, missingElements, explanation, followUps) ==
    [parses |-> parses, scores |-> scores, feedback |-> feedback,
     missingElements |-> missingElements, explanation |-> explanation,
     followUpQuestions |-> followUps]

\* the object {}
EmptyObject ==
    EvalJson(TRUE, NoScores("undefined"), NoFeedback("undefined"), JUndef, JUndef,
             FollowUpList("undefined", <<>>))
\* a fenced block that JSON.parse rejects
MalformedEval == [EmptyObject EXCEPT !.parses = FALSE]
NoEvalJson == MalformedEval

EvaluationResult(overall, criteria, strengths, improvements, misconceptions, summary, missingElements, explanation, raw) ==
    [scores |-> [overall |-> overall, criteria |-> criteria],
     feedback |-> [strengths |-> strengths, improvements |-> improvements,
                   misconceptions |-> misconceptions, summary |-> summary],
     missingElements |-> missingElements, explanation |-> explanation,
     raw |-> raw]

FollowUpQuestion(question, purpose, misconception, missingElement) ==
    [question |-> question, purpose |-> purpose,
     targetedMisconception |-> misconception,
     targetedMissingElement |-> missingElement]

FollowUpQuestionsResult(followUpQuestions, explanation, raw) ==
    [followUpQuestions |-> followUpQuestions, explanation |-> explanation,
     raw |-> raw]

NoEvalResponse == EvalResponse(<<>>, NoEvalJson)
NoEvaluation ==
    EvaluationResult(0, JMap({}), JArr(<<>>), JArr(<<>>), JArr(<<>>), "",
                     JArr(<<>>), "", NoEvalResponse)
NoFollowUps == FollowUpQuestionsResult(<<>>, "", NoEvalResponse)

(***************************************************************************)
(* extractStructuredEvaluation                                             *)
(***************************************************************************)
\* explanation.substring(0, 200)
Substring200(s) == IF Len(s) <= 200 THEN s ELSE SubSeq(s, 1, 200)

extractStructuredEvaluation(text) ==
    LET scored == {i \in 1..Len(text) : ScoreIndex(text, i) > 0}
        criterion(i) == Trim(Lower(LastWord(text[i])))
        \* /Overall:\s*(\d+(?:\.\d+)?)\s*(?:\/|\s*out of\s*)\s*10/i, first match
        overallAt == {i \in scored : criterion(i) = "overall"}
        overallScore ==
            IF overallAt # {} THEN text[ScoreIndex(text, Least(overallAt))].n
            ELSE 0
        \* the loop over scoreRegex: a later score of a criterion replaces an earlier
        criteriaAt == {i \in scored : criterion(i) # "overall"}
        criteriaScores ==
            { [k |-> criterion(i), v |-> text[ScoreIndex(text, i)].n] :
                i \in {i \in criteriaAt :
                          \A j \in criteriaAt : j > i => criterion(j) # criterion(i)} }
        strengthsMatch ==
            SectionCapture(text, {"strengths"}, {},
                {"areas for improvement", "improvements", "misconceptions",
                 "missing elements"})
        improvementsMatch ==
            SectionCapture(text, {"areas for improvement"}, {"improvements"},
                {"misconceptions", "missing elements", "explanation"})
        misconceptionsMatch ==
            SectionCapture(text, {}, {"misconceptions"},
                {"missing elements", "explanation"})
        missingElementsMatch ==
            SectionCapture(text, {}, {"missing elements"}, {"explanation"})
        explanationMatch == SectionCapture(text, {}, {"explanation"}, {})
        explanation == TrimText(explanationMatch.text)
    IN  IF overallAt = {} /\ criteriaScores = {}
        THEN [tag |-> "null", v |-> NoEvaluation]
        ELSE Ok(EvaluationResult(
                 overallScore, JMap(criteriaScores),
                 JArr(extractBulletPoints(strengthsMatch.text)),
                 JArr(extractBulletPoints(improvementsMatch.text)),
                 JArr(extractBulletPoints(misconceptionsMatch.text)),
                 Substring200(explanation),
                 JArr(extractBulletPoints(missingElementsMatch.text)),
                 explanation, NoEvalResponse))

(***************************************************************************)
(* extractStructuredFollowUps                                              *)
(***************************************************************************)
\* (?:\d+\.|\*|-)
FollowUpMarks == {"-", "*"} \cup Numbered

\* the optional group (?:\s*-\s*Word:\s*(.+?)(?:\n|$))? tried at index pos
OptionalGroup(text, pos, word) ==
    LET dash == SkipSpace(text, pos)
        w == SkipSpace(text, dash + 1)
        c == SkipSpace(text, w + 2)
        matched == /\ dash <= Len(text) /\ text[dash] = Marker("-")
                   /\ w <= Len(text) /\ IsWord(text[w], {word})
                   /\ FollowedByColon(text, w)
                   /\ c <= Len(text)
        e == LineEnd(text, c)
    IN  IF matched
        THEN [matched |-> TRUE, group |-> SubSeq(text, c, e - 1), next |-> e + 1]
        ELSE [matched |-> FALSE, group |-> <<>>, next |-> pos]

RECURSIVE FollowUpMatches(_, _)
\* the loop over questionRegex.exec(response), searching from index from
FollowUpMatches(text, from) ==
    LET marks == {i \in from..Len(text) :
                     /\ text[i].k = "marker" /\ text[i].s \in FollowUpMarks
                     /\ SkipSpace(text, i + 1) <= Len(text)}
    IN  IF marks = {} THEN <<>>
        ELSE LET c == SkipSpace(text, Least(marks) + 1)
                 e == LineEnd(text, c)
                 purpose == OptionalGroup(text, e + 1, "purpose")
                 targets == OptionalGroup(text, purpose.next, "targets")
                 question == TrimText(SubSeq(text, c, e - 1))
                 target == ConcatAtoms(targets.group)
             IN  (IF Len(question) > 0
                  THEN << FollowUpQuestion(
                            question,
                            IF Len(TrimText(purpose.group)) > 0
                            THEN TrimText(purpose.group)
                            ELSE "Help fill gaps in understanding",
                            IF targets.matched /\ Includes(target, "misconception")
                            THEN JStr(TrimText(targets.group)) ELSE JUndef,
                            IF targets.matched /\ Includes(target, "missing")
                            THEN JStr(TrimText(targets.group)) ELSE JUndef) >>
                  ELSE <<>>)
                 \o FollowUpMatches(text, targets.next)

extractStructuredFollowUps(text) ==
    LET followUpQuestions == FollowUpMatches(text, 1)
        explanationMatch ==
            SectionCapture(text, {},
                {"explanation", "why these questions will help"}, {})
    IN  IF Len(followUpQuestions) = 0
        THEN [tag |-> "null", v |-> NoFollowUps]
        ELSE Ok(FollowUpQuestionsResult(followUpQuestions,
                    TrimText(explanationMatch.text), NoEvalResponse))

(***************************************************************************)
(* validateEvaluationResult and validateFollowUpResult, applied to the     *)
(* parsed JSON object after parsedJson.raw = response.                     *)
(***************************************************************************)
ArrayOr(v) == IF v.t = "array" THEN v ELSE JArr(<<>>)
StringOr(v) == IF v.t = "string" THEN v.s ELSE ""
TypedString(v) == IF v.t = "string" THEN v ELSE JUndef

validateEvaluationResult(parsedJson, raw) ==
    EvaluationResult(
        IF parsedJson.scores.overall.t = "number" THEN parsedJson.scores.overall.n ELSE 0,
        IF Truthy(parsedJson.scores.criteria) THEN parsedJson.scores.criteria ELSE JMap({}),
        ArrayOr(parsedJson.feedback.strengths),
        ArrayOr(parsedJson.feedback.improvements),
        ArrayOr(parsedJson.feedback.misconceptions),
        StringOr(parsedJson.feedback.summary),
        ArrayOr(parsedJson.missingElements),
        StringOr(parsedJson.explanation),
        raw)

\* q.question of a null element is a TypeError
validateFollowUpResult(parsedJson, raw) ==
    LET list == parsedJson.followUpQuestions
    IN  IF list.t = "array" /\ \E i \in 1..Len(list.a) : list.a[i].t = "null"
        THEN [tag |-> "threw", v |-> NoFollowUps]
        ELSE Ok(FollowUpQuestionsResult(
                 IF list.t = "array"
                 THEN [i \in 1..Len(list.a) |->
                          FollowUpQuestion(
                              StringOr(list.a[i].question),
                              StringOr(list.a[i].purpose),
                              TypedString(list.a[i].targetedMisconception),
                              TypedString(list.a[i].targetedMissingElement))]
                 ELSE <<>>,
                 StringOr(parsedJson.explanation), raw))

(***************************************************************************)
(* parseEvaluationResponse and parseFollowUpResponse.  Each catch block    *)
(* throws a new Error, so what the try block throws leaves the function.   *)
(***************************************************************************)
HasFenceAtom(text) == \E i \in 1..Len(text) : text[i].k = "fence"

parseEvaluationResponse(resp) ==
    IF HasFenceAtom(resp.text)
    THEN IF ~resp.json.parses
         THEN [tag |-> "threw", v |-> NoEvaluation]
         ELSE Ok(validateEvaluationResult(resp.json, resp))
    ELSE LET parsedResult == extractStructuredEvaluation(resp.text)
         IN  IF parsedResult.tag = "ok"
             THEN Ok([parsedResult.v EXCEPT !.raw = resp])
             ELSE Ok(EvaluationResult(
                      0, JMap({}), JArr(<<>>),
                      JArr(<<"Could not parse evaluation">>), JArr(<<>>),
                      "Unable to process the evaluation", JArr(<<>>),
                      "The system encountered an error processing the evaluation",
                      resp))

parseFollowUpResponse(resp) ==
    IF HasFenceAtom(resp.text)
    THEN IF ~resp.json.parses
         THEN [tag |-> "threw", v |-> NoFollowUps]
         ELSE validateFollowUpResult(resp.json, resp)
    ELSE LET parsedResult == extractStructuredFollowUps(resp.text)
         IN  IF parsedResult.tag = "ok"
             THEN Ok([parsedResult.v EXCEPT !.raw = resp])
             ELSE Ok(FollowUpQuestionsResult(
                      << FollowUpQuestion(
                           "What else would you like to know about this topic?",
                           "General follow-up to encourage further exploration",
                           JUndef, JUndef) >>,
                      "Unable to generate specific follow-up questions",
                      resp))

(***************************************************************************)
(* Inputs of the evaluation parsers: fenced JSON objects, free sequences   *)
(* of lines over a line alphabet, and whole documents in the layout the    *)
(* evaluation and follow-up prompts ask for.  Every list marker of these   *)
(* texts is followed by text on its own line.                              *)
(***************************************************************************)
\* longest free sequence of lines of an evaluation response
MaxEvalLines == 3
\* longest "followUpQuestions" array of a fenced JSON block
MaxFollowUps == 2

EvalProse == "The answer covers the main idea."
EvalExplanation == "The answer is mostly right."
FollowUpText == "What is the role of chlorophyll?"

OverallLine(n) == <<Words("Overall"), Colon, SP, ScoreAtom(n, "/")>>
CriterionLine(name, n, sep) == <<Words(name), Colon, SP, ScoreAtom(n, sep)>>
HeaderLine(word) == <<Keyword(word), Colon>>
ExplanationLine(word) == <<Keyword(word), Colon, SP, Words(EvalExplanation)>>
BulletLine(mark, s) == <<Marker(mark), SP, Words(s)>>
\* "- Clear explanation": a bullet whose text holds one of the section words
ClearExplanationLine == <<Marker("-"), SP, Words("Clear"), SP, Keyword("explanation")>>
PurposeLine == <<SP, SP, Marker("-"), SP, Keyword("Purpose"), Colon, SP,
                 Words("Checks the key term")>>
TargetsLine(s) == <<SP, SP, Marker("-"), SP, Keyword("Targets"), Colon, SP,
                    Words(s), Colon, SP, Words("chlorophyll")>>

EvalAlphabet ==
    { <<>>,
      <<Words(EvalProse)>>,
      <<FenceAtom>>,
      OverallLine(7),
      <<Words("Overall"), SP>> \o CriterionLine("Score", 8, " out of "),
      CriterionLine("Accuracy", 6, "/"),
      HeaderLine("Strengths"),
      HeaderLine("Areas for Improvement"),
      ExplanationLine("Explanation"),
      BulletLine("-", "Good use of examples"),
      BulletLine("1.", FollowUpText),
      ClearExplanationLine,
      PurposeLine,
      TargetsLine("missing element") }

RECURSIVE JoinAtomLines(_)
\* the lines of a text, joined with newlines
JoinAtomLines(lines) ==
    IF Len(lines) = 0 THEN <<>>
    ELSE IF Len(lines) = 1 THEN lines[1]
    ELSE lines[1] \o <<NL>> \o JoinAtomLines(Tail(lines))

\* the object {"scores":{"overall":7}}
ScoresOnly == [EmptyObject EXCEPT !.scores = ScoresObj(JNum(7), JUndef)]

ScoresValues ==
    {NoScores("undefined"), NoScores("null"), NoScores("string")}
    \cup {ScoresObj(o, c) :
            o \in {JUndef, JNum(7), JStr("7")},
            c \in {JUndef, JNull, JMap({}), JMap({[k |-> "accuracy", v |-> 8]}),
                   JStr("high"), JNum(5), JNum(0), JArr(<<>>)}}

FeedbackValues ==
    { NoFeedback("undefined"), NoFeedback("null"),
      FeedbackObj(JArr(<<"Good use of examples">>), JArr(<<"Name the pigment">>),
                  JArr(<<>>), JStr("A solid answer.")),
      FeedbackObj(JStr("Good use of examples"), JNull, JUndef, JNum(1)),
      FeedbackObj(JArr(<<>>), JUndef, JArr(<<"Plants eat soil">>), JUndef) }

EvaluationJsons ==
    { EvalJson(TRUE, s, f, m, e, FollowUpList("undefined", <<>>)) :
        s \in ScoresValues, f \in FeedbackValues,
        m \in {JUndef, JArr(<<"chlorophyll">>), JStr("chlorophyll")},
        e \in {JUndef, JStr(EvalExplanation), JNum(3)} }

FollowUpElements ==
    { FollowUpNonObj("null"), FollowUpNonObj("string"),
      FollowUpObj(JStr(FollowUpText), JStr("Checks the key term"), JUndef,
                  JStr("chlorophyll")),
      FollowUpObj(JNum(1), JUndef, JNull, JUndef) }

FollowUpJsons ==
    { [EmptyObject EXCEPT !.followUpQuestions = f, !.explanation = e] :
        f \in {FollowUpList("string", <<>>)}
              \cup {FollowUpList("array", a) :
                      a \in SeqsUpTo(FollowUpElements, MaxFollowUps)},
        e \in {JUndef, JStr(EvalExplanation)} }

EvalJsons == EvaluationJsons \cup FollowUpJsons \cup {MalformedEval}

FencedEvalResponses ==
    { EvalResponse(t, j) :
        t \in {<<FenceAtom>>, <<Words(EvalProse), NL, FenceAtom>>},
        j \in EvalJsons }

FreeEvalResponses ==
    { EvalResponse(JoinAtomLines(ls),
                   IF \E i \in 1..Len(ls) : ls[i] = <<FenceAtom>>
                   THEN j ELSE NoEvalJson) :
        ls \in SeqsUpTo(EvalAlphabet, MaxEvalLines),
        j \in {ScoresOnly, MalformedEval} }

IfLines(cond, ls) == IF cond THEN ls ELSE <<>>

\* an evaluation in the layout the evaluation prompt asks for
EvalDocument(overall, criteria, strengths, improvements, misconceptions, missing, explanation) ==
    JoinAtomLines(
        IfLines(overall, <<OverallLine(7)>>)
        \o IfLines(criteria, <<CriterionLine("Accuracy", 6, "/"),
                               CriterionLine("Clarity", 8, " out of "),
                               CriterionLine("Accuracy", 9, "/"), <<>> >>)
        \o IfLines(strengths # "", <<HeaderLine("Strengths"),
                                     BulletLine(strengths, "Good use of examples"),
                                     ClearExplanationLine>>)
        \o IfLines(improvements # "",
                   <<HeaderLine(improvements), ClearExplanationLine,
                     BulletLine("2.", "Name the pigment")>>)
        \o IfLines(misconceptions, <<HeaderLine("Misconceptions"), <<>>,
                                     BulletLine("*", "Plants eat soil")>>)
        \o IfLines(missing, <<HeaderLine("Missing Elements"),
                              BulletLine("-", "chlorophyll")>>)
        \o IfLines(explanation, <<ExplanationLine("Explanation"),
                                  <<Words(EvalProse)>>, <<>> >>))

EvalDocuments ==
    { EvalResponse(EvalDocument(o, c, s, i, m, e, x), NoEvalJson) :
        o \in BOOLEAN, c \in BOOLEAN, s \in {"", "-", "1."},
        i \in {"", "Areas for Improvement", "Improvements"},
        m \in BOOLEAN, e \in BOOLEAN, x \in BOOLEAN }

\* follow-up questions in the layout the follow-up prompt asks for
FollowUpDocument(intro, mark, purpose, targets, second, why) ==
    JoinAtomLines(
        IfLines(intro, <<<<Words(EvalProse)>>, <<>> >>)
        \o <<BulletLine(mark, FollowUpText)>>
        \o IfLines(purpose, <<PurposeLine>>)
        \o IfLines(targets # "", <<TargetsLine(targets)>>)
        \o IfLines(second, <<BulletLine("2.", "Why are leaves green?")>>)
        \o IfLines(why # "", <<<<>>, ExplanationLine(why)>>))

FollowUpDocuments ==
    { EvalResponse(FollowUpDocument(i, k, p, t, s, w), NoEvalJson) :
        i \in BOOLEAN, k \in {"1.", "-", "*"}, p \in BOOLEAN,
        t \in {"", "missing element", "misconception"}, s \in BOOLEAN,
        w \in {"", "Explanation", "Why these questions will help"} }

EvalResponses ==
    FencedEvalResponses \cup FreeEvalResponses \cup EvalDocuments
    \cup FollowUpDocuments

(***************************************************************************)
(* The Claude client (server/claude/client.ts, tokens.ts, parser.ts).      *)
(*                                                                         *)
(* An error message is the sequence of its words; a word 'status <digits>' *)
(* keeps its digits.  Numbers that the source computes in floating point   *)
(* (the backoff delay) are exact fractions.                                *)
(***************************************************************************)
\* A value of type number | undefined
Undefined == [defined |-> FALSE, v |-> 0]
Num(n) == [defined |-> TRUE, v |-> n]

\* JavaScript truthiness of a value of type number | undefined
TruthyNumber(x) == x.defined /\ x.v # 0

\* JavaScript truthiness of a value of type boolean | undefined, written
\* "true", "false" or "undefined"
TruthyFlag(x) == x = "true"

Word(w) == [w |-> w, digits |-> <<>>]
StatusWord(digits) == [w |-> "status", digits |-> digits]

\* String.prototype.includes on one word, for the four substrings the
\* source looks for ('ETIMEDOUT' holds neither 'timeout' nor 'TIMEOUT';
\* the test is case-sensitive)
WordIncludes(word, sub) ==
    CASE word.w = "ECONNREFUSED" -> sub = "ECONNREFUSED"
      [] word.w = "ETIMEDOUT" -> sub = "ETIMEDOUT"
      [] word.w = "timeout" -> sub = "timeout"
      [] word.w = "TIMEOUT" -> sub = "TIMEOUT"
      [] OTHER -> FALSE

MessageIncludes(message, sub) ==
    \E i \in 1..Len(message) : WordIncludes(message[i], sub)

\* error.message.match(/status (\d+)/): the index of the first word
\* 'status ' followed by at least one digit, 0 when there is none
StatusMatch(message) ==
    LET matches == {i \in 1..Len(message) :
                        message[i].w = "status" /\ Len(message[i].digits) > 0}
    IN  IF matches = {} THEN 0 ELSE Least(matches)

\* parseInt(digits, 10)
RECURSIVE ParseInt(_)
ParseInt(digits) ==
    IF digits = <<>> THEN 0
    ELSE 10 * ParseInt(SubSeq(digits, 1, Len(digits) - 1)) + digits[Len(digits)]

\* new ClaudeApiError(message, type, statusCode, retryable)
ClaudeApiError(message, type, statusCode, retryable) ==
    [kind |-> "ClaudeApiError", message |-> message, type |-> type,
     statusCode |-> statusCode, retryable |-> retryable]

\* new Error(message), and a thrown value that is not an Error
\* (message is then String(value))
ErrorOf(message) == [kind |-> "Error", message |-> message]
NonError(message) == [kind |-> "other", message |-> message]

classifyApiError_StatusFirst(error) ==
    IF error.kind = "ClaudeApiError" THEN error
    ELSE IF error.kind = "Error" THEN
        LET message == error.message
            m == StatusMatch(message)
            statusCode == IF m = 0 THEN 0 ELSE ParseInt(message[m].digits)
        IN  IF statusCode = 401
            THEN ClaudeApiError(<<Word("Authentication failed:")>> \o message,
                                "authentication_error", Num(statusCode), FALSE)
            ELSE IF statusCode = 400
            THEN ClaudeApiError(<<Word("Invalid request:")>> \o message,
                                "invalid_request_error", Num(statusCode), FALSE)
            ELSE IF statusCode = 429
            THEN ClaudeApiError(<<Word("Rate limit exceeded:")>> \o message,
                                "rate_limit_error", Num(statusCode), TRUE)
            ELSE IF statusCode \in {500, 502, 503, 504}
            THEN ClaudeApiError(<<Word("Server error:")>> \o message,
                                "api_error", Num(statusCode), TRUE)
            ELSE IF MessageIncludes(message, "ECONNREFUSED")
                    \/ MessageIncludes(message, "ETIMEDOUT")
            THEN ClaudeApiError(<<Word("Connection error:")>> \o message,
                                "connection_error", Undefined, TRUE)
            ELSE IF MessageIncludes(message, "timeout")
                    \/ MessageIncludes(message, "TIMEOUT")
            THEN ClaudeApiError(<<Word("Request timed out:")>> \o message,
                                "timeout_error", Undefined, TRUE)
            ELSE ClaudeApiError(<<Word("Unknown error:")>> \o message,
                                "unknown_error", Undefined, FALSE)
    ELSE ClaudeApiError(<<Word("Unexpected error:")>> \o error.message,
                        "unknown_error", Undefined, FALSE)

classifyApiError(error) ==
    IF error.kind = "ClaudeApiError" THEN error
    ELSE IF error.kind = "Error" THEN
        LET message == error.message
            m == StatusMatch(message)
            statusCode == IF m = 0 THEN 0 ELSE ParseInt(message[m].digits)
        IN  IF MessageIncludes(message, "ECONNREFUSED")
               \/ MessageIncludes(message, "ETIMEDOUT")
            THEN ClaudeApiError(<<Word("Connection error:")>> \o message,
                                "connection_error", Undefined, TRUE)
            ELSE IF MessageIncludes(message, "timeout")
                    \/ MessageIncludes(message, "TIMEOUT")
            THEN ClaudeApiError(<<Word("Request timed out:")>> \o message,
                                "timeout_error", Undefined, TRUE)
            ELSE IF m # 0 /\ statusCode = 401
            THEN ClaudeApiError(<<Word("Authentication failed:")>> \o message,
                                "authentication_error", Num(statusCode), FALSE)
            ELSE IF m # 0 /\ statusCode = 400
            THEN ClaudeApiError(<<Word("Invalid request:")>> \o message,
                                "invalid_request_error", Num(statusCode), FALSE)
            ELSE IF m # 0 /\ statusCode = 429
            THEN ClaudeApiError(<<Word("Rate limit exceeded:")>> \o message,
                                "rate_limit_error", Num(statusCode), TRUE)
            ELSE IF m # 0 /\ statusCode \in {500, 502, 503, 504}
            THEN ClaudeApiError(<<Word("Server error:")>> \o message,
                                "api_error", Num(statusCode), TRUE)
            ELSE ClaudeApiError(<<Word("Unknown error:")>> \o message,
                                "unknown_error", Undefined, FALSE)
    ELSE ClaudeApiError(<<Word("Unexpected error:")>> \o error.message,
                        "unknown_error", Undefined, FALSE)

\* Exact fractions n/d with n >= 0 and d > 0, kept in lowest terms
RECURSIVE Gcd(_, _)
Gcd(a, b) == IF b = 0 THEN a ELSE Gcd(b, a % b)

Frac(n, d) == LET g == Gcd(n, d) IN [n |-> n \div g, d |-> d \div g]
FracOf(i) == [n |-> i, d |-> 1]
FracMul(x, y) ==
    LET g1 == Gcd(x.n, y.d)
        g2 == Gcd(y.n, x.d)
    IN  Frac((x.n \div g1) * (y.n \div g2), (x.d \div g2) * (y.d \div g1))
FracAdd(x, y) ==
    LET g == Gcd(x.d, y.d)
    IN  Frac(x.n * (y.d \div g) + y.n * (x.d \div g), (x.d \div g) * y.d)
FracLeq(x, y) ==
    LET g == Gcd(x.d, y.d) IN x.n * (y.d \div g) <= y.n * (x.d \div g)
FracMin(x, y) == IF FracLeq(x, y) THEN x ELSE y

\* Math.pow(x, k) for an integer k >= 0
RECURSIVE FracPow(_, _)
FracPow(x, k) == IF k = 0 THEN FracOf(1) ELSE FracMul(x, FracPow(x, k - 1))

\* interface RetryConfig
RetryConfig(maxRetries, initialDelayMs, maxDelayMs, backoffFactor) ==
    [maxRetries |-> maxRetries, initialDelayMs |-> initialDelayMs,
     maxDelayMs |-> maxDelayMs, backoffFactor |-> backoffFactor]

DEFAULT_RETRY_CONFIG == RetryConfig(3, 1000, 10000, FracOf(2))

\* The un-jittered delay
\* Math.min(initialDelayMs * Math.pow(backoffFactor, retryCount), maxDelayMs)
BackoffDelay(retryCount, config) ==
    FracMin(FracMul(FracOf(config.initialDelayMs),
                    FracPow(config.backoffFactor, retryCount)),
            FracOf(config.maxDelayMs))

\* random is the value of Math.random(), a fraction in [0, 1)
calculateBackoff_NoCap(retryCount, config, random) ==
    LET delay == FracMul(FracOf(config.initialDelayMs),
                         FracPow(config.backoffFactor, retryCount))
        jitter == FracMul(FracMul(delay, Frac(2, 10)), random)
    IN  FracAdd(delay, jitter)

calculateBackoff(retryCount, config, random) ==
    LET delay == BackoffDelay(retryCount, config)
        jitter == FracMul(FracMul(delay, Frac(2, 10)), random)
    IN  FracAdd(delay, jitter)

\* interface ClaudeRequestOptions (the fields the client branches on)
ClaudeRequestOptions(retryConfig, timeoutMs, dryRun, trackUsage) ==
    [retryConfig |-> retryConfig, timeoutMs |-> timeoutMs,
     dryRun |-> dryRun, trackUsage |-> trackUsage]

\* interface TokenBudget; an unset ceiling is Undefined
TokenBudget(maxTokensPerRequest, maxTokensPerDay, maxTokensPerMonth, maxRequestsPerDay) ==
    [maxTokensPerRequest |-> maxTokensPerRequest,
     maxTokensPerDay |-> maxTokensPerDay,
     maxTokensPerMonth |-> maxTokensPerMonth,
     maxRequestsPerDay |-> maxRequestsPerDay]

\* interface TokenUsage (model, endpoint and requestId are not read back)
TokenUsage(inputTokens, outputTokens, totalTokens, timestamp, successful) ==
    [inputTokens |-> inputTokens, outputTokens |-> outputTokens,
     totalTokens |-> totalTokens, timestamp |-> timestamp,
     successful |-> successful]

\* A timestamp is a day count; timestamp 1 is 2025-01-30.
\* new Date(timestamp).toISOString().split('T')[0]
IsoDay(timestamp) ==
    IF timestamp <= 2 THEN <<2025, 1, 29 + timestamp>>
    ELSE <<2025, 2, timestamp - 2>>

\* new Date(timestamp).toISOString().slice(0, 7)
IsoMonth(timestamp) == SubSeq(IsoDay(timestamp), 1, 2)

\* estimateTokenCount: Math.ceil(text.length / 4), 0 for the empty text;
\* a text is modelled by its length
estimateTokenCount(text) == IF text = 0 THEN 0 ELSE (text + 3) \div 4

\* estimateMessageTokens: messages is the sequence of the contents
RECURSIVE estimateMessageTokens(_)
estimateMessageTokens(messages) ==
    IF messages = <<>> THEN 10
    ELSE estimateTokenCount(Head(messages)) + 4
         + estimateMessageTokens(Tail(messages))

\* usages.reduce((sum, usage) => sum + usage.totalTokens, 0)
RECURSIVE SumTotalTokens(_)
SumTotalTokens(usages) ==
    IF usages = <<>> THEN 0
    ELSE Head(usages).totalTokens + SumTotalTokens(Tail(usages))

UsedOnDay(history, day) ==
    SelectSeq(history, LAMBDA usage : IsoDay(usage.timestamp) = day)

UsedInMonth(history, month) ==
    SelectSeq(history, LAMBDA usage : IsoMonth(usage.timestamp) = month)

Allowed == [allowed |-> TRUE, reason |-> ""]
NotAllowed(reason) == [allowed |-> FALSE, reason |-> reason]

\* checkBudgetLimits on the module state of tokens.ts (budget, history)
\* at the time now
checkBudgetLimits(tokenEstimate, budget, history, now) ==
    LET tokensUsedToday == SumTotalTokens(UsedOnDay(history, IsoDay(now)))
        requestsToday == Len(UsedOnDay(history, IsoDay(now)))
        tokensUsedThisMonth == SumTotalTokens(UsedInMonth(history, IsoMonth(now)))
    IN  IF TruthyNumber(budget.maxTokensPerRequest)
           /\ tokenEstimate > budget.maxTokensPerRequest.v
        THEN NotAllowed("per-request limit")
        ELSE IF TruthyNumber(budget.maxTokensPerDay)
                /\ tokensUsedToday + tokenEstimate > budget.maxTokensPerDay.v
        THEN NotAllowed("daily token limit")
        ELSE IF TruthyNumber(budget.maxRequestsPerDay)
                /\ requestsToday >= budget.maxRequestsPerDay.v
        THEN NotAllowed("daily request limit")
        ELSE IF TruthyNumber(budget.maxTokensPerMonth)
                /\ tokensUsedThisMonth + tokenEstimate > budget.maxTokensPerMonth.v
        THEN NotAllowed("monthly token limit")
        ELSE Allowed

\* interface ClaudeResponse
ClaudeResponse(content, inputTokens, outputTokens) ==
    [content |-> content,
     usage |-> [inputTokens |-> inputTokens, outputTokens |-> outputTokens,
                totalTokens |-> inputTokens + outputTokens]]

\* The error of a refused request (client.ts 111-116)
BudgetError(reason) ==
    ClaudeApiError(<<Word("Budget limit exceeded:"), Word(reason)>>,
                   "invalid_request_error", Undefined, FALSE)

\* The error the timer of sendMessageToClaudeWithRetry rejects with
TimeoutError ==
    ClaudeApiError(<<Word("Request timed out")>>, "timeout_error", Undefined, TRUE)

NoError == [kind |-> "null"]
NoResponse == [kind |-> "none"]

\* One invocation of sendMessageToClaude.  attempt is the retry attempt
\* that invoked it; stage is "init" while
\* the client and the configuration are awaited, "outbound" while
\* client.messages.create is awaited, then "resolved" or "rejected"
\* with the settlement in v.
Call(n, messages, opts) ==
    [attempt |-> n, messages |-> messages, options |-> opts,
     stage |-> "init", v |-> NoResponse]

(***************************************************************************)
(* The Claude client is idle while the parsers are checked.                *)
(***************************************************************************)
NoBudget == TokenBudget(Undefined, Undefined, Undefined, Undefined)
NoOptions == ClaudeRequestOptions(Undefined, Undefined, "undefined", "undefined")

ClientIdle ==
    /\ requestMessages = <<>>
    /\ requestOptions = NoOptions
    /\ currentBudget = NoBudget
    /\ usageHistory = <<>>
    /\ clock = 1
    /\ calls = <<>>
    /\ attempt = 0
    /\ lastError = NoError
    /\ wrapperPc = "idle"
    /\ wrapperResult = NoResponse

\* No call of classifyApiError or calculateBackoff is being checked
NoBackoff == Frac(0, 1)

ParserIdle ==
    /\ thrownError = NoError
    /\ classified = NoError
    /\ backoffCount = 0
    /\ backoffConfig = DEFAULT_RETRY_CONFIG
    /\ backoffMs = NoBackoff

(***************************************************************************)
(* The controllers: QuizController (quiz/controller) and                   *)
(* EvaluationController (services/evaluation/index.ts), one run of         *)
(* generateQuiz or of evaluateResponse with its event listeners.           *)
(***************************************************************************)
NumListeners == 2

Listeners == 1..NumListeners

Range(seq) == {seq[i] : i \in 1..Len(seq)}

\* What a listener does when it is called: it returns, it throws, or it
\* unregisters itself (removeEventListener) and returns
Behaviours == [Listeners -> {"returns", "throws", "removes"}]

\* emitEvent, the switch: the progress estimate of a status
Progress(ctl, status) ==
    IF ctl = "quiz"
    THEN CASE status = "started" -> Num(5)
           [] status = "processing_content" -> Num(20)
           [] status = "calling_api" -> Num(40)
           [] status = "parsing_response" -> Num(80)
           [] status = "storing_quiz" -> Num(90)
           [] status = "complete" -> Num(100)
           [] OTHER -> Undefined
    ELSE CASE status = "started" -> Num(5)
           [] status = "evaluating_response" -> Num(30)
           [] status = "generating_follow_up" -> Num(60)
           [] status = "storing_evaluation" -> Num(90)
           [] status = "complete" -> Num(100)
           [] OTHER -> Undefined

\* interface QuizGenerationEvent / EvaluationEvent (data is not modelled)
Event(ctl, status, message) ==
    [status |-> status, message |-> message,
     progress |-> Progress(ctl, status),
     error |-> IF status = "error" THEN message ELSE <<>>]

\* emitEvent on the listener array ls: every listener is called with the
\* event (rec is what each listener has received so far); an exception of
\* a listener is caught and logged with console.error (log).  A listener
\* that unregisters itself replaces this.listeners by a filtered copy, so
\* the iteration under way still visits the old array.  threw tells
\* whether emitEvent itself threw.
emitEvent_NoCatch(ls, rec, log, event, behaviour) ==
    LET throwers == {i \in 1..Len(ls) : behaviour[ls[i]] = "throws"}
        last == IF throwers = {} THEN Len(ls) ELSE Least(throwers)
        called == {ls[i] : i \in 1..last}
    IN  [listeners |-> SelectSeq(ls, LAMBDA l :
                           ~(l \in called /\ behaviour[l] = "removes")),
         received |-> [l \in Listeners |->
                           IF l \in called THEN Append(rec[l], event) ELSE rec[l]],
         logged |-> log,
         threw |-> throwers # {}]

emitEvent(ls, rec, log, event, behaviour) ==
    LET called == Range(ls)
    IN  [listeners |-> SelectSeq(ls, LAMBDA l :
                           ~(l \in called /\ behaviour[l] = "removes")),
         received |-> [l \in Listeners |->
                           IF l \in called THEN Append(rec[l], event) ELSE rec[l]],
         logged |-> log \cup {<<l, event.status>> :
                                  l \in {k \in called : behaviour[k] = "throws"}},
         threw |-> FALSE]

\* Several emitEvent calls in a row; the first that throws ends the row
RECURSIVE EmitAll(_, _, _, _, _)
EmitAll(ls, rec, log, events, behaviour) ==
    IF events = <<>>
    THEN [listeners |-> ls, received |-> rec, logged |-> log, threw |-> FALSE]
    ELSE LET e == emitEvent(ls, rec, log, Head(events), behaviour)
         IN  IF e.threw THEN e
             ELSE EmitAll(e.listeners, e.received, e.logged, Tail(events), behaviour)

\* error instanceof Error ? error.message : String(error)
ErrorMessage(error) == error.message

\* What a listener throws
ListenerError == ErrorOf(<<Word("listener failed")>>)

\* The responses of generateQuiz and evaluateResponse
SuccessResponse == [success |-> TRUE, error |-> <<>>]
FailureResponse(errorMessage) == [success |-> FALSE, error |-> errorMessage]
NoRunResponse == [success |-> FALSE, error |-> <<Word("none")>>]

\* No controller is running
ControllerIdle ==
    /\ controller = "quiz"
    /\ listeners = <<>>
    /\ received = [l \in Listeners |-> <<>>]
    /\ logged = {}
    /\ runPc = "idle"
    /\ runScore = 0
    /\ runResponse = NoRunResponse

(***************************************************************************)
(* The content preprocessor (part_006).  A text is a sequence of chunks; a *)
(* chunk is a run of characters of one kind, with its length:              *)
(*   "word"        digits: no letter, white space, markup, '.', '#' or '-' *)
(*   "space"       spaces                                                  *)
(*   "newline"     one "\n"                                                *)
(*   "tag"         a complete HTML tag such as <p>                         *)
(*   "stop"        one "."                                                 *)
(*   "definition"  "Rome is a " followed by digits                         *)
(* and, in what the preprocessor returns, the KEY TERMS block and the      *)
(* markers it inserts.  The texts have no '#', so the heading alternative  *)
(* of the section delimiter and the heading score never match, and no      *)
(* keyword of the conclusion score.                                        *)
(***************************************************************************)
Chunk(kind, len) == [kind |-> kind, len |-> len]

TruncatedMarker == Chunk("truncated", 33)    \* "[Content truncated for length...]"
SummarizedMarker == Chunk("summarized", 39)  \* "[Some content summarized for length...]"
OmittedMarker == Chunk("omitted", 36)        \* "[Some content omitted for length...]"
EllipsisMarker == Chunk("ellipsis", 6)       \* " [...]"
Markers == {TruncatedMarker, SummarizedMarker, OmittedMarker, EllipsisMarker}

\* const MAX_CONTENT_TOKENS
MAX_CONTENT_TOKENS == 200000

RECURSIVE ContentLength(_)
\* text.length
ContentLength(text) ==
    IF text = <<>> THEN 0 ELSE Head(text).len + ContentLength(Tail(text))

\* estimateTokenCount of part_006: Math.ceil(text.length * 0.25), and 0 for the
\* empty string; the same function of the length as estimateTokenCount of tokens.ts
Tokens(text) == estimateTokenCount(ContentLength(text))

\* \s
IsWhitespace(c) == c.kind \in {"space", "newline"}

RECURSIVE SkipWhitespace(_)
SkipWhitespace(text) ==
    IF text # <<>> /\ IsWhitespace(Head(text)) THEN SkipWhitespace(Tail(text)) ELSE text

RECURSIVE CollapseWhitespace(_)
\* text.replace(/\s+/g, ' ')
CollapseWhitespace(text) ==
    IF text = <<>> THEN <<>>
    ELSE IF IsWhitespace(Head(text))
         THEN <<Chunk("space", 1)>> \o CollapseWhitespace(SkipWhitespace(text))
         ELSE <<Head(text)>> \o CollapseWhitespace(Tail(text))

\* text.replace(/<\/?[^>]+(>|$)/g, '')
RemoveTags(text) == SelectSeq(text, LAMBDA c : c.kind # "tag")

RECURSIVE TrimEnd(_)
TrimEnd(text) ==
    IF text # <<>> /\ IsWhitespace(text[Len(text)])
    THEN TrimEnd(SubSeq(text, 1, Len(text) - 1)) ELSE text

\* String.prototype.trim
TrimContent(text) == TrimEnd(SkipWhitespace(text))

\* cleanContent: the texts hold no script, style or comment
cleanContent(text) ==
    IF text = <<>> THEN <<>>
    ELSE TrimContent(CollapseWhitespace(RemoveTags(CollapseWhitespace(text))))

RECURSIVE KeyTermMatches(_)
\* the matches of /([A-Z][a-z]+(?:\s[A-Z][a-z]+)*)\s+is\s+a\s+([^.]+)/gi, the
\* only pattern a text of chunks can match: the term is "Rome", the definition
\* runs to the next "." or to the end and is trimmed; the length of each
\* definition, in order of match
KeyTermMatches(text) ==
    LET starts == {i \in 1..Len(text) : text[i].kind = "definition"}
    IN  IF starts = {} THEN <<>>
        ELSE LET i == Least(starts)
                 stops == {j \in i..Len(text) : text[j].kind = "stop"}
                 j == IF stops = {} THEN Len(text) + 1 ELSE Least(stops)
                 captured == TrimContent(SubSeq(text, i, j - 1))
             IN  <<ContentLength(captured) - 10>>
                 \o KeyTermMatches(SubSeq(text, j, Len(text)))

\* extractKeyTerms: the record term -> definition, as the definitions of its
\* keys; every match assigns keyTerms["Rome"], so the last match stays
extractKeyTerms(text) ==
    LET matches == KeyTermMatches(text)
    IN  IF matches = <<>> THEN <<>> ELSE <<matches[Len(matches)]>>

\* 'KEY TERMS:\n' + entries.map(`- ${term}: ${definition}`).join('\n') + '\n\n'
KeyTermsSection(terms) ==
    IF terms = <<>> THEN <<>> ELSE <<Chunk("keyterms", 11 + (8 + terms[1]) + 2)>>

\* the indexes k where a match of /\n\s*\n/ that starts at i can end
DelimiterEnds(text, i) ==
    {k \in (i + 1)..Len(text) :
        /\ text[k].kind = "newline"
        /\ \A m \in i..k : IsWhitespace(text[m])}

RECURSIVE SplitParagraphs(_)
\* text.split(/\n\s*\n/)
SplitParagraphs(text) ==
    LET starts == {i \in 1..Len(text) :
                      text[i].kind = "newline" /\ DelimiterEnds(text, i) # {}}
    IN  IF starts = {} THEN <<text>>
        ELSE LET i == Least(starts)
                 ends == DelimiterEnds(text, i)
                 k == CHOOSE x \in ends : \A y \in ends : y <= x
             IN  <<SubSeq(text, 1, i - 1)>>
                 \o SplitParagraphs(SubSeq(text, k + 1, Len(text)))

RECURSIVE JoinParagraphs(_)
\* parts.join('\n\n')
JoinParagraphs(parts) ==
    IF parts = <<>> THEN <<>>
    ELSE IF Len(parts) = 1 THEN parts[1]
    ELSE parts[1] \o <<Chunk("newline", 1), Chunk("newline", 1)>>
         \o JoinParagraphs(Tail(parts))

\* splitIntoSections: the delimiter is a heading or /\n\s*\n/; empty and blank
\* sections are left out
splitIntoSections(text) ==
    SelectSeq(SplitParagraphs(text), LAMBDA section : TrimContent(section) # <<>>)

\* (section.match(/\n\s*[-*]\s+|\n\s*\d+\.\s+/g) || []).length
ListItemCount(section) ==
    Cardinality({i \in 1..Len(section) :
        /\ section[i].kind = "newline"
        /\ \E j \in (i + 1)..(Len(section) - 2) :
              /\ \A m \in (i + 1)..(j - 1) : IsWhitespace(section[m])
              /\ section[j].kind = "word"
              /\ section[j + 1].kind = "stop"
              /\ IsWhitespace(section[j + 2])})

\* section.split(/\s+/).length: one more than the runs of white space, three
\* of which are inside "Rome is a "
WordCount(section) ==
    1 + Cardinality({i \in 1..Len(section) :
                        /\ IsWhitespace(section[i])
                        /\ (i = 1 \/ ~IsWhitespace(section[i - 1]))})
      + 3 * Cardinality({i \in 1..Len(section) : section[i].kind = "definition"})

\* the score rankSectionsByImportance gives a section
SectionScore(section) ==
    2 * ListItemCount(section) + (IF WordCount(section) < 50 THEN 2 ELSE 0)

RECURSIVE rankSectionsByImportance(_)
\* rankSectionsByImportance: the stable sort by score, descending
rankSectionsByImportance(sections) ==
    IF sections = <<>> THEN <<>>
    ELSE LET best == Least({i \in 1..Len(sections) :
                         \A j \in 1..Len(sections) :
                             SectionScore(sections[j]) <= SectionScore(sections[i])})
         IN  <<sections[best]>>
             \o rankSectionsByImportance(
                    SubSeq(sections, 1, best - 1)
                    \o SubSeq(sections, best + 1, Len(sections)))

RECURSIVE SkipStops(_)
SkipStops(text) ==
    IF text # <<>> /\ Head(text).kind = "stop" THEN SkipStops(Tail(text)) ELSE text

RECURSIVE Sentences(_)
\* section.match(/[^.!?]+[.!?]+/g) || []
Sentences(section) ==
    LET text == SkipStops(section)
        stops == {i \in 1..Len(text) : text[i].kind = "stop"}
    IN  IF stops = {} THEN <<>>
        ELSE LET i == Least(stops)
                 rest == SkipStops(SubSeq(text, i, Len(text)))
                 k == Len(text) - Len(rest)
             IN  <<SubSeq(text, 1, k)>> \o Sentences(rest)

RECURSIVE AddSentences(_, _, _, _)
\* the while loop of summarizeSection
AddSentences(summary, tokenCount, sentences, maxTokens) ==
    IF sentences = <<>> \/ ~(tokenCount < maxTokens) THEN summary
    ELSE LET nextSentence == Head(sentences)
             nextTokens == Tokens(nextSentence)
         IN  IF tokenCount + nextTokens <= maxTokens
             THEN AddSentences(summary \o <<Chunk("space", 1)>> \o nextSentence,
                               tokenCount + nextTokens, Tail(sentences), maxTokens)
             ELSE summary

\* summarizeSection
summarizeSection(section, maxTokens) ==
    LET sentences == Sentences(section)
    IN  IF sentences = <<>> THEN <<>>
        ELSE IF Tokens(section) <= maxTokens THEN section
        ELSE AddSentences(sentences[1], Tokens(sentences[1]), Tail(sentences), maxTokens)
             \o <<EllipsisMarker>>

RECURSIVE SelectSections(_, _, _)
\* the for loop of extractImportantContent
SelectSections(rankedSections, tokenCount, remainingTokens) ==
    IF rankedSections = <<>> THEN <<>>
    ELSE LET section == Head(rankedSections)
             sectionTokens == Tokens(section)
             summaryTokenBudget == remainingTokens - tokenCount
         IN  IF tokenCount + sectionTokens <= remainingTokens
             THEN <<section>> \o SelectSections(Tail(rankedSections),
                                               tokenCount + sectionTokens, remainingTokens)
             ELSE IF summaryTokenBudget > 100
                  THEN <<summarizeSection(section, summaryTokenBudget)>>
                  ELSE <<>>

\* extractImportantContent
extractImportantContent(text, maxTokens) ==
    LET sections == splitIntoSections(text)
        introduction == IF sections = <<>> THEN <<>> ELSE Head(sections)
        shifted == IF sections = <<>> THEN <<>> ELSE Tail(sections)
        conclusion == IF shifted = <<>> THEN <<>> ELSE shifted[Len(shifted)]
        popped == IF shifted = <<>> THEN <<>> ELSE SubSeq(shifted, 1, Len(shifted) - 1)
        remainingTokens == maxTokens - Tokens(introduction) - Tokens(conclusion)
        selectedSections == SelectSections(rankSectionsByImportance(popped), 0,
                                           remainingTokens)
    IN  JoinParagraphs(<<introduction, <<SummarizedMarker>>>> \o selectedSections
                       \o <<<<OmittedMarker>>, conclusion>>)

\* Math.ceil(n / d) for d > 0
CeilDiv(n, d) == (n + d - 1) \div d

\* truncateContent
truncateContent(text, maxTokens) ==
    IF text = <<>> THEN <<>>
    ELSE
    LET estimatedTokens == Tokens(text)
        paragraphs == SplitParagraphs(text)
        n == Len(paragraphs)
        \* Math.floor(maxTokens / (estimatedTokens / paragraphs.length))
        maxParagraphs == (maxTokens * n) \div estimatedTokens
        startParagraphs == CeilDiv(maxParagraphs * 5, 10)
        endParagraphs == CeilDiv(maxParagraphs * 3, 10)
        middleParagraphs == maxParagraphs - startParagraphs - endParagraphs
        middleStart == (n - middleParagraphs) \div 2
        Slice(from, to) == SubSeq(paragraphs, from + 1, IF to < n THEN to ELSE n)
    IN  IF estimatedTokens <= maxTokens THEN text
        ELSE IF 2 * maxParagraphs < n THEN extractImportantContent(text, maxTokens)
        ELSE JoinParagraphs(
                 Slice(0, startParagraphs)
                 \o (IF n > maxParagraphs THEN <<<<TruncatedMarker>>>> ELSE <<>>)
                 \o (IF middleParagraphs > 0
                     THEN Slice(middleStart, middleStart + middleParagraphs)
                          \o <<<<TruncatedMarker>>>>
                     ELSE <<>>)
                 \o (IF endParagraphs > 0 THEN Slice(n - endParagraphs, n) ELSE <<>>))

\* interface PreprocessingOptions (preserveHeadings and summarizeLongSections
\* are read from the options and never used)
PreprocessingOptions(maxTokens, extractTerms) ==
    [maxTokens |-> maxTokens, extractKeyTerms |-> extractTerms]

\* preprocessContent without the call of cleanContent
preprocessContent_NoClean(text, opts) ==
    LET maxTokens == IF opts.maxTokens.defined THEN opts.maxTokens.v
                     ELSE MAX_CONTENT_TOKENS
        shouldExtractTerms == opts.extractKeyTerms # "false"
        cleaned == text
        tokenEstimate == Tokens(cleaned)
        keyTermsSection == IF shouldExtractTerms
                           THEN KeyTermsSection(extractKeyTerms(cleaned))
                           ELSE <<>>
        contentTokenBudget == maxTokens - Tokens(keyTermsSection)
    IN  keyTermsSection
        \o (IF tokenEstimate > contentTokenBudget
            THEN truncateContent(cleaned, contentTokenBudget)
            ELSE cleaned)

\* preprocessContent
preprocessContent(text, opts) ==
    LET maxTokens == IF opts.maxTokens.defined THEN opts.maxTokens.v
                     ELSE MAX_CONTENT_TOKENS
        shouldExtractTerms == opts.extractKeyTerms # "false"
        cleaned == cleanContent(text)
        tokenEstimate == Tokens(cleaned)
        keyTermsSection == IF shouldExtractTerms
                           THEN KeyTermsSection(extractKeyTerms(cleaned))
                           ELSE <<>>
        contentTokenBudget == maxTokens - Tokens(keyTermsSection)
    IN  keyTermsSection
        \o (IF tokenEstimate > contentTokenBudget
            THEN truncateContent(cleaned, contentTokenBudget)
            ELSE cleaned)

NoPreprocessing == PreprocessingOptions(Undefined, "undefined")

\* The preprocessor is not called
PreprocessIdle ==
    /\ articleContent = <<>>
    /\ preprocessingOptions = NoPreprocessing
    /\ processedContent = <<>>
    /\ preprocessPc = "idle"

(***************************************************************************)
(* The services between the call wrapper and the controllers:              *)
(* QuizGenerationService and ResponseEvaluationService.                    *)
(***************************************************************************)
\* new Error(`<prefix> ${error instanceof Error ? error.message : String(error)}`)
WrappedError(prefix, error) == ErrorOf(<<Word(prefix)>> \o error.message)

\* callClaudeWithRetries, the catch block
callClaudeWithRetriesCatch(error) ==
    IF error.kind = "ClaudeApiError" THEN error
    ELSE WrappedError("Failed to generate quiz:", error)

\* formatError: an Error is returned as it is
formatError(error) ==
    IF error.kind \in {"Error", "ClaudeApiError"} THEN error
    ELSE WrappedError("Quiz generation error:", error)

\* what QuizGenerationService.generateQuiz rejects with when
\* sendMessageToClaudeWithRetry rejected with error
generateQuizRejection(error) == formatError(callClaudeWithRetriesCatch(error))

\* ResponseEvaluationService.evaluateResponse, the catch block
evaluateResponseRejection(error) ==
    WrappedError("Failed to evaluate response:", error)

\* ResponseEvaluationService.generateFollowUpQuestions, the catch block
generateFollowUpQuestionsRejection(error) ==
    WrappedError("Failed to generate follow-up questions:", error)

\* saveEvaluation and saveFollowUpQuestions, the catch blocks
saveEvaluationRejection(error) == WrappedError("Failed to save evaluation:", error)
saveFollowUpQuestionsRejection(error) ==
    WrappedError("Failed to save follow-up questions:", error)

(***************************************************************************)
(* QuizGenerationService.parseStructuredQuizResponse, on answers whose     *)
(* lines are blank, text, opt, sttype, stans and stexp lines.              *)
(***************************************************************************)
\* The lines where
\* response.split(/\n\s*(?:#{1,3}\s*)?(?:Question|Q)\s*\d+\.?(?:\s+|:)/i)
\* splits: white space or a colon has to follow the marker, so a bare marker
\* on the last line is none
ServiceSplitPoints(lines) ==
    {m \in SplitPoints(lines, Len(lines)) :
        ~(IsBlankLine(Unprefixed(lines[m])) /\ m = Len(lines))}

ServiceBlocks(lines) ==
    LET points == SortedSeq(ServiceSplitPoints(lines))
        endOf(i) == IF i < Len(points) THEN points[i + 1] - 1 ELSE Len(lines)
    IN  <<SubSeq(lines, 1, IF Len(points) = 0 THEN Len(lines) ELSE points[1] - 1)>>
        \o [i \in 1..Len(points) |->
               <<Unprefixed(lines[points[i]])>>
               \o SubSeq(lines, points[i] + 1, endOf(i))]

\* a line start that /\n\s*(?:Options|A\.|[a-d]\))/i takes
IsServiceOptionStart(l) ==
    l.q = "" /\ (l.k = "opthdr" \/ (l.k = "opt" /\ l.t = "A."))

\* a [Type: ...] line after .replace(/\[(?:Question\s+)?Type:[^\]]+\]/i, ''),
\* and what trim leaves of it at the start, at the end, and as the only line
\* of the text
TagRemoved(l) ==
    (IF l.q = "" THEN "" ELSE l.q \o " ") \o (IF l.s = "" THEN "" ELSE " " \o l.s)
TagRemovedFirst(l) == IF l.q = "" THEN l.s ELSE TagRemoved(l)
TagRemovedLast(l) == IF l.s = "" THEN l.q ELSE TagRemoved(l)
TagRemovedOnly(l) == IF l.q = "" THEN l.s ELSE TagRemovedLast(l)

\* questionText: the text before the options without its first type tag, trimmed
serviceQuestionText(block) ==
    LET break == FirstIndexFrom(block, 2, IsServiceOptionStart)
        textBeforeOptions ==
            IF break > 0 THEN SubSeq(block, 1, break - 1) ELSE block
        tag == FirstIndex(textBeforeOptions, LAMBDA l : l.k = "sttype")
        empty(i) == IF i = tag THEN TagRemovedOnly(textBeforeOptions[i]) = ""
                    ELSE LineText(textBeforeOptions[i], NoJson) = ""
        kept == {i \in 1..Len(textBeforeOptions) : ~empty(i)}
        first == CHOOSE i \in kept : \A j \in kept : i <= j
        last == CHOOSE i \in kept : \A j \in kept : j <= i
        piece(i) ==
            IF i # tag THEN LineText(textBeforeOptions[i], NoJson)
            ELSE IF i = first /\ i = last THEN TagRemovedOnly(textBeforeOptions[i])
            ELSE IF i = first THEN TagRemovedFirst(textBeforeOptions[i])
            ELSE IF i = last THEN TagRemovedLast(textBeforeOptions[i])
            ELSE TagRemoved(textBeforeOptions[i])
    IN  IF kept = {} THEN ""
        ELSE JoinLines([i \in 1..(last - first + 1) |-> piece(first + i - 1)])

\* a line that starts with [A-D]\. or \([a-d]\) or [a-d]\)
IsServiceOption(l) == l.q = "" /\ l.k = "opt"

\* The options of a block whose type says multiple choice.
\* /(?:^|\n)(?:[A-D]\.|\([a-d]\)|[a-d]\))\s*(.+?)(?=(?:\n(?:[A-D]\.|\([a-d]\)|[a-d]\))|$))/g
\* takes an option line only when the next line starts with an option marker
\* or when it is the last line of the block; and
\* opt.replace(/^[A-D]\.|\([a-d]\)|[a-d]\)\s*/i, '') removes a letter marker
\* only at the start of the block, as every other match begins with a newline
serviceOptions(block) ==
    LET matched == SelectSeq([i \in 1..Len(block) |-> i],
                       LAMBDA i : /\ IsServiceOption(block[i])
                                  /\ block[i].s # ""
                                  /\ (i = Len(block) \/ IsServiceOption(block[i + 1])))
        optionText(i) ==
            IF i = 1 \/ block[i].t \in {"(a)", "(b)", "(c)", "(d)"}
            THEN Trim(block[i].s)
            ELSE Spaced(block[i].t, block[i].s)
    IN  [n \in 1..Len(matched) |-> optionText(matched[n])]

\* the question of one trimmed, non-empty block
serviceBlock(block, id) ==
    LET typeLine == FirstIndex(block, LAMBDA l : l.k = "sttype")
        type == IF typeLine > 0 THEN Trim(Lower(block[typeLine].t))
                ELSE "open_ended"
        multipleChoice == Includes(type, "multiple") \/ Includes(type, "choice")
        opts == IF multipleChoice THEN serviceOptions(block) ELSE <<>>
        correctLine == FirstIndex(block, LAMBDA l : l.k = "stans")
        rawAnswer == IF correctLine > 0 THEN Trim(block[correctLine].s) ELSE ""
        letter == LeadingLetterIndex(rawAnswer)
        correctAnswer ==
            IF /\ correctLine > 0 /\ multipleChoice /\ Len(opts) > 0
               /\ letter >= 0 /\ letter < Len(opts)
            THEN opts[letter + 1] ELSE rawAnswer
        \* /(?:Explanation|Rationale):\s*([^\n].*?)(?=\n\s*(?:Question|Q)\d+\.?|$)/is
        expLine == FirstIndex(block, LAMBDA l : l.k = "stexp")
        nextQ == FirstIndexFrom(block, expLine + 1, LAMBDA l : l.q # "")
        expStop == IF nextQ > 0 THEN nextQ - 1 ELSE Len(block)
        explanation ==
            IF expLine > 0
            THEN JoinLines(TextsOf(TrimLines(<<AsLine(Text(block[expLine].s))>>
                     \o SubSeq(block, expLine + 1, expStop)), NoJson))
            ELSE ""
    IN  Question(id, normalizeQuestionType(type), serviceQuestionText(block),
                 opts, correctAnswer, explanation)

\* the questions array: empty when the answer was not split
parseStructuredQuizResponse(lines) ==
    LET questionBlocks == ServiceBlocks(lines)
        startIndex == IF Len(TrimLines(questionBlocks[1])) > 0 THEN 0 ELSE 1
        kept == SelectSeq([i \in 1..Len(questionBlocks) |-> i - 1],
                    LAMBDA i : i >= startIndex
                               /\ Len(TrimLines(questionBlocks[i + 1])) > 0)
    IN  IF Len(questionBlocks) <= 1 THEN <<>>
        ELSE [n \in 1..Len(kept) |->
                 serviceBlock(TrimLines(questionBlocks[kept[n] + 1]),
                              kept[n] - startIndex + 1)]

(***************************************************************************)
(* What QuizGenerationService.generateQuiz resolves with, and the quiz     *)
(* QuizController.generateQuiz makes of it.  The questions of a quiz are   *)
(* the objects of the response, as JSON values.                            *)
(***************************************************************************)
ApiResponse(hasQuestions, questions, hasRaw) ==
    [hasQuestions |-> hasQuestions, questions |-> questions, hasRaw |-> hasRaw]

\* a QuizQuestion as an object
AsJson(q) ==
    QObj(JNum(q.id), JStr(q.type), JStr(q.text),
         IF q.hasOptions THEN JArr(q.options) ELSE JUndef,
         JStr(q.correctAnswer),
         IF q.hasExplanation THEN JStr(q.explanation) ELSE JUndef)

AllAsJson(questions) == [i \in 1..Len(questions) |-> AsJson(questions[i])]

\* apiResponse.raw is truthy: the answer is not the empty string
RawTruthy(resp) == JoinLines(TextsOf(resp.lines, resp.json)) # ""

\* QuizGenerationService.parseQuizResponse: the result of JSON.parse as it
\* is, the questions of the structured parser, or the raw answer
serviceParseQuizResponse(resp) ==
    IF HasFence(resp.lines)
    THEN IF resp.json.parses
         THEN ApiResponse(resp.json.hasQuestions, resp.json.questions, FALSE)
         ELSE ApiResponse(FALSE, <<>>, TRUE)
    ELSE LET questions == parseStructuredQuizResponse(resp.lines)
         IN  IF Len(questions) > 0
             THEN ApiResponse(TRUE, AllAsJson(questions), FALSE)
             ELSE ApiResponse(FALSE, <<>>, RawTruthy(resp))

\* parseQuizResponse of parser.ts, given what its three parsers returned
firstParsed(jsonQuiz, markdownQuiz, structuredQuiz, opts) ==
    IF jsonQuiz.tag = "ok" /\ Len(jsonQuiz.v.questions) > 0
    THEN validateQuiz(jsonQuiz.v, opts)
    ELSE IF markdownQuiz.tag = "ok" /\ Len(markdownQuiz.v.questions) > 0
    THEN validateQuiz(markdownQuiz.v, opts)
    ELSE IF structuredQuiz.tag = "ok" /\ Len(structuredQuiz.v.questions) > 0
    THEN validateQuiz(structuredQuiz.v, opts)
    ELSE ErrorQuiz("Failed to parse quiz response into a structured format")

\* parseQuizResponse of parser.ts as one function: each parser reads the
\* response once
parseQuizResponse(resp, opts) ==
    CHOOSE quiz \in {firstParsed(jsonQuiz, markdownQuiz, structuredQuiz, opts) :
                        jsonQuiz \in {parseJSONResponse(resp)},
                        markdownQuiz \in {parseMarkdownResponse(resp)},
                        structuredQuiz \in {parseStructuredResponse(resp)}} : TRUE

RunQuiz(questions, hasError, error) ==
    [questions |-> questions, hasError |-> hasError, error |-> error]
NoRunQuiz == RunQuiz(<<>>, FALSE, "")

\* QuizController.generateQuiz: the quiz of an API response that has
\* questions or a raw answer
controllerQuiz(apiResponse, resp) ==
    IF apiResponse.hasQuestions
    THEN RunQuiz(apiResponse.questions, FALSE, "")
    ELSE CHOOSE run \in {RunQuiz(AllAsJson(quiz.questions), quiz.hasError, quiz.error) :
                            quiz \in {parseQuizResponse(resp,
                                         ParsingOptions("undefined", "undefined", "undefined"))}} :
                TRUE

(***************************************************************************)
(* EvaluationStorage.saveEvaluation.                                       *)
(***************************************************************************)
\* interface StoredEvaluation; id tells the run that stored it
StoredEvaluation(id, questionId, overall) ==
    [id |-> id, questionId |-> questionId, overall |-> overall,
     hasFollowUpQuestions |-> FALSE]

\* the evaluations array after saveEvaluation: the entry of the same
\* question is replaced, a new one is appended
saveEvaluation(evaluations, stored) ==
    LET existingIndex == FirstIndex(evaluations,
                             LAMBDA e : e.questionId = stored.questionId)
    IN  IF existingIndex > 0
        THEN [evaluations EXCEPT ![existingIndex] = stored]
        ELSE Append(evaluations, stored)

\* the evaluations array after saveFollowUpQuestions: the follow-up
\* questions are attached to the evaluation with that id
saveFollowUpQuestions(evaluations, evaluationId) ==
    LET evalIndex == FirstIndex(evaluations, LAMBDA e : e.id = evaluationId)
    IN  IF evalIndex > 0
        THEN [evaluations EXCEPT ![evalIndex].hasFollowUpQuestions = TRUE]
        ELSE evaluations

\* No request is in a pipeline
PipelineIdle ==
    /\ wrapperError = NoError
    /\ caughtError = NoError
    /\ modelAnswer = Response(<<>>, NoJson)
    /\ runQuiz = NoRunQuiz
    /\ storedEvaluations = <<>>
    /\ evaluationsBefore = <<>>

(***************************************************************************)
(* The cache of ResponseEvaluationService.  A string that enters the cache *)
(* key is the sequence of its UTF-16 code units.                           *)
(***************************************************************************)
\* String.prototype.toLowerCase, on ASCII
LowerCodes(str) ==
    [i \in 1..Len(str) |-> IF str[i] >= 65 /\ str[i] <= 90 THEN str[i] + 32 ELSE str[i]]

\* the code units that trim removes: tab, line feed, carriage return, space
SpaceCodes == {9, 10, 13, 32}

\* String.prototype.trim
RECURSIVE TrimCodes(_)
TrimCodes(str) ==
    IF str = <<>> THEN str
    ELSE IF Head(str) \in SpaceCodes THEN TrimCodes(Tail(str))
    ELSE IF str[Len(str)] \in SpaceCodes THEN TrimCodes(SubSeq(str, 1, Len(str) - 1))
    ELSE str

\* a < b in the order of Array.prototype.sort without a comparator: by code
\* units, a prefix first
RECURSIVE CodesLess(_, _)
CodesLess(a, b) ==
    IF b = <<>> THEN FALSE
    ELSE IF a = <<>> THEN TRUE
    ELSE IF Head(a) # Head(b) THEN Head(a) < Head(b)
    ELSE CodesLess(Tail(a), Tail(b))

\* Array.prototype.sort
RECURSIVE SortCodes(_)
SortCodes(strs) ==
    IF strs = <<>> THEN <<>>
    ELSE LET least == CHOOSE i \in 1..Len(strs) :
                          \A j \in 1..Len(strs) : ~CodesLess(strs[j], strs[i])
         IN  <<strs[least]>>
                 \o SortCodes([j \in 1..(Len(strs) - 1) |->
                                  IF j < least THEN strs[j] ELSE strs[j + 1]])

\* Array.prototype.join with the separator sep
RECURSIVE JoinCodes(_, _)
JoinCodes(strs, sep) ==
    IF strs = <<>> THEN <<>>
    ELSE IF Len(strs) = 1 THEN strs[1]
    ELSE strs[1] \o <<sep>> \o JoinCodes(Tail(strs), sep)

\* the code unit of "|"
Bar == 124

\* expectedElements.map(e => e.trim().toLowerCase()).sort()
NormalizedElements(expectedElements) ==
    SortCodes([i \in 1..Len(expectedElements) |->
                  LowerCodes(TrimCodes(expectedElements[i]))])

\* A 32-bit integer as two 16-bit halves: its value modulo 2^32 is
\* hi * 2^16 + lo
Int32(hi, lo) == [hi |-> hi, lo |-> lo]

\* hash = ((hash << 5) - hash) + char; hash = hash & hash
HashStep(hash, char) ==
    LET lo == 31 * hash.lo + char
        hi == 31 * hash.hi + (lo \div 65536)
    IN  Int32(hi % 65536, lo % 65536)

RECURSIVE HashFrom(_, _)
HashFrom(hash, str) ==
    IF str = <<>> THEN hash ELSE HashFrom(HashStep(hash, Head(str)), Tail(str))

IsNegative(hash) == hash.hi >= 32768

\* the absolute value of a 32-bit integer
Magnitude(hash) ==
    IF IsNegative(hash)
    THEN Int32((65535 - hash.hi + (IF hash.lo = 0 THEN 1 ELSE 0)) % 65536,
               (65536 - hash.lo) % 65536)
    ELSE hash

\* the digits of a magnitude in base 36, the most significant first
RECURSIVE Digits36(_)
Digits36(m) ==
    LET high == (m.hi % 36) * 65536 + m.lo
        quotient == Int32(m.hi \div 36, high \div 36)
    IN  IF quotient = Int32(0, 0) THEN <<high % 36>>
        ELSE Digits36(quotient) \o <<high % 36>>

\* Number.prototype.toString(36)
toString36(hash) ==
    [negative |-> IsNegative(hash), digits |-> Digits36(Magnitude(hash))]

\* ResponseEvaluationService.simpleHash
simpleHash(str) == toString36(HashFrom(Int32(0, 0), str))

\* ResponseEvaluationService.generateCacheKey
generateCacheKey(userResponse, question, expectedElements, questionType) ==
    simpleHash(LowerCodes(TrimCodes(userResponse))
               \o <<Bar>> \o LowerCodes(TrimCodes(question))
               \o <<Bar>> \o JoinCodes(NormalizedElements(expectedElements), Bar)
               \o <<Bar>> \o questionType)

\* the arguments of evaluateResponse; articleContent and promptOptions only
\* enter the prompt
EvaluationRequest(article, question, userResponse, expectedElements,
                  questionType, promptOptions) ==
    [articleContent |-> article, question |-> question,
     userResponse |-> userResponse, expectedElements |-> expectedElements,
     questionType |-> questionType, promptOptions |-> promptOptions]

KeyOf(req) ==
    generateCacheKey(req.userResponse, req.question, req.expectedElements,
                     req.questionType)

\* an entry of the Map: its key and { timestamp, data }; data is the
\* evaluation of the request producedFor
CacheEntry(key, timestamp, producedFor) ==
    [key |-> key, timestamp |-> timestamp, data |-> [producedFor |-> producedFor]]

\* this.options.cacheExpiry! * 60 * 1000
expiryMs(expiry) == expiry * 60 * 1000

Expired(item, now, expiry) == now - item.timestamp > expiryMs(expiry)

\* getFromCache: the entry of the key unless there is none or it has
\* expired, and the Map afterwards
getFromCache(cache, key, now, expiry) ==
    IF \A item \in cache : item.key # key
    THEN [hit |-> FALSE, cache |-> cache]
    ELSE LET item == CHOOSE e \in cache : e.key = key
         IN  IF Expired(item, now, expiry)
             THEN [hit |-> FALSE, cache |-> cache \ {item}]
             ELSE [hit |-> TRUE, item |-> item, cache |-> cache]

\* cleanCache
cleanCache(cache, now, expiry) == {item \in cache : ~Expired(item, now, expiry)}

\* saveToCache: Map.set, then cleanCache
saveToCache(cache, key, producedFor, now, expiry) ==
    cleanCache({item \in cache : item.key # key}
                   \cup {CacheEntry(key, now, producedFor)},
               now, expiry)

NoRequest == EvaluationRequest("", <<>>, <<>>, <<>>, <<>>, "")

\* what a call of evaluateResponse gave: a cached evaluation and its age,
\* a new evaluation, or an exception
Served(req, outcome, producedFor, age) ==
    [request |-> req, outcome |-> outcome, producedFor |-> producedFor, age |-> age]

\* The service has an empty cache and has answered nothing
CacheIdle ==
    /\ evaluationCache = {}
    /\ cacheNow = 0
    /\ cacheExpiry = 60
    /\ inFlight = <<>>
    /\ servedResult = Served(NoRequest, "none", NoRequest, 0)
    /\ requestsMade = 0

(***************************************************************************)
(* The evaluation service is idle while parseQuizResponse is checked.      *)
(***************************************************************************)
NoEvalResult == [tag |-> "none", v |-> NoEvaluation]
NoFollowUpResult == [tag |-> "none", v |-> NoFollowUps]

EvalIdle ==
    /\ evalResponse = NoEvalResponse
    /\ evalPc = "idle"
    /\ evalResult = NoEvalResult
    /\ followUpResult = NoFollowUpResult

Init ==
    /\ response \in QuizResponses
    /\ options \in AllParsingOptions
    /\ pc = "json"
    /\ result = NoResult
    /\ EvalIdle
    /\ ClientIdle
    /\ ParserIdle
    /\ ControllerIdle
    /\ PreprocessIdle
    /\ PipelineIdle
    /\ CacheIdle

Next == TryJSON \/ TryMarkdown \/ TryStructured \/ AllFailed

Spec == Init /\ [][Next]_vars

(***************************************************************************)
(* The evaluation parsers: one call of parseEvaluationResponse or of       *)
(* parseFollowUpResponse on a response text, while parseQuizResponse is    *)
(* idle.                                                                   *)
(***************************************************************************)
QuizIdle ==
    /\ response = Response(<<>>, NoJson)
    /\ options = ParsingOptions("undefined", "undefined", "undefined")
    /\ pc = "idle"
    /\ result = NoResult

InitEval ==
    /\ evalResponse \in EvalResponses
    /\ evalPc \in {"parseEvaluation", "parseFollowUp"}
    /\ evalResult = NoEvalResult
    /\ followUpResult = NoFollowUpResult
    /\ QuizIdle
    /\ ClientIdle
    /\ ParserIdle
    /\ ControllerIdle
    /\ PreprocessIdle
    /\ PipelineIdle
    /\ CacheIdle

\* evaluateResponse: const result = this.parseEvaluationResponse(response.content)
ParseEvaluation ==
    /\ evalPc = "parseEvaluation"
    /\ evalResult' = parseEvaluationResponse(evalResponse)
    /\ evalPc' = "done"
    /\ UNCHANGED <<evalResponse, followUpResult>>
    /\ UNCHANGED notEvalVars

\* generateFollowUpQuestions: return this.parseFollowUpResponse(response.content)
ParseFollowUp ==
    /\ evalPc = "parseFollowUp"
    /\ followUpResult' = parseFollowUpResponse(evalResponse)
    /\ evalPc' = "done"
    /\ UNCHANGED <<evalResponse, evalResult>>
    /\ UNCHANGED notEvalVars

NextEval == ParseEvaluation \/ ParseFollowUp

SpecEval == InitEval /\ [][NextEval]_vars

(***************************************************************************)
(* The Claude client: one request through sendMessageToClaudeWithRetry     *)
(* and the passing of days.                                                *)
(* JavaScript runs each handler to its next await without interruption,    *)
(* so an action is the code between two awaits; the settlement of the      *)
(* call raced in the current attempt runs the wrapper's continuation in    *)
(* the same step.                                                          *)
(***************************************************************************)
MaxRetries == 2
MaxClock == 2

RequestMessages == {<<0>>, <<40>>}

RetryConfigs ==
    {RetryConfig(n, 1000, 10000, FracOf(2)) : n \in 0..MaxRetries}

RequestOptions ==
    {ClaudeRequestOptions(c, t, d, u) :
        c \in RetryConfigs, t \in {Undefined, Num(30000)},
        d \in {"undefined", "true"}, u \in {"undefined", "false"}}

Budgets ==
    {NoBudget,
     TokenBudget(Num(20), Undefined, Undefined, Undefined),
     TokenBudget(Undefined, Num(40), Undefined, Undefined),
     TokenBudget(Undefined, Undefined, Num(60), Undefined),
     TokenBudget(Undefined, Undefined, Undefined, Num(1)),
     TokenBudget(Undefined, Undefined, Undefined, Num(0))}

\* response.usage of a successful client.messages.create
ApiUsages == {<<14, 6>>, <<26, 30>>}

\* What client.messages.create can throw
ApiErrors ==
    {ErrorOf(<<StatusWord(<<4, 2, 9>>)>>),
     ErrorOf(<<StatusWord(<<4, 0, 1>>)>>),
     ErrorOf(<<Word("ECONNREFUSED")>>)}

\* What chrome.storage.local.get can reject with
StorageError == ErrorOf(<<Word("failed")>>)

InitClient ==
    /\ requestMessages \in RequestMessages
    /\ requestOptions \in RequestOptions
    /\ currentBudget \in Budgets
    /\ usageHistory = <<>>
    /\ clock = 1
    /\ calls = <<>>
    /\ attempt = 0
    /\ lastError = NoError
    /\ wrapperPc = "idle"
    /\ wrapperResult = NoResponse
    /\ QuizIdle
    /\ EvalIdle
    /\ ParserIdle
    /\ ControllerIdle
    /\ PreprocessIdle
    /\ PipelineIdle
    /\ CacheIdle

\* sendMessageToClaudeWithRetry, the catch block (client.ts 237-256)
RetryCatch_IgnoreRetryable(error) ==
    LET claudeError == IF error.kind = "ClaudeApiError" THEN error
                       ELSE classifyApiError(error)
    IN  /\ lastError' = claudeError
        /\ IF attempt < requestOptions.retryConfig.maxRetries
           THEN wrapperPc' = "backoff" /\ UNCHANGED wrapperResult
           ELSE wrapperPc' = "thrown" /\ wrapperResult' = claudeError
        /\ UNCHANGED attempt

RetryCatch(error) ==
    LET claudeError == IF error.kind = "ClaudeApiError" THEN error
                       ELSE classifyApiError(error)
    IN  /\ lastError' = claudeError
        /\ IF claudeError.retryable /\ attempt < requestOptions.retryConfig.maxRetries
           THEN wrapperPc' = "backoff" /\ UNCHANGED wrapperResult
           ELSE wrapperPc' = "thrown" /\ wrapperResult' = claudeError
        /\ UNCHANGED attempt

\* return await ... (client.ts 230-235)
RetryReturn(resp) ==
    /\ wrapperPc' = "returned"
    /\ wrapperResult' = resp
    /\ UNCHANGED <<attempt, lastError>>

\* The call c is the one the wrapper awaits in its current attempt
IsCurrent(c) == wrapperPc = "awaiting" /\ calls[c].attempt = attempt

\* The promise of call c settles; the wrapper's continuation runs when it
\* awaits this call, and nothing observes the settlement otherwise
Settle(c, stage, v) ==
    /\ calls' = [calls EXCEPT ![c].stage = stage, ![c].v = v]
    /\ IF IsCurrent(c)
       THEN IF stage = "resolved" THEN RetryReturn(v) ELSE RetryCatch(v)
       ELSE UNCHANGED <<attempt, lastError, wrapperPc, wrapperResult>>

\* recordUsage: usageHistory.push({...usage, timestamp: Date.now()})
recordUsage(inputTokens, outputTokens, successful) ==
    usageHistory' = Append(usageHistory,
        TokenUsage(inputTokens, outputTokens, inputTokens + outputTokens,
                   clock, successful))

\* options.trackUsage !== false
TrackUsage(opts) == opts.trackUsage # "false"

\* sendMessageToClaudeWithRetry is called: attempt 0 invokes sendMessageToClaude
SendMessageToClaudeWithRetry ==
    /\ wrapperPc = "idle"
    /\ attempt' = 0
    /\ calls' = Append(calls, Call(0, requestMessages, requestOptions))
    /\ wrapperPc' = "awaiting"
    /\ UNCHANGED <<requestMessages, requestOptions, currentBudget, usageHistory,
                   clock, lastError, wrapperResult>>
    /\ UNCHANGED notClientVars

\* The backoff wait ends: continue with the next iteration of the loop
BackoffElapses ==
    /\ wrapperPc = "backoff"
    /\ attempt' = attempt + 1
    /\ calls' = Append(calls, Call(attempt + 1, requestMessages, requestOptions))
    /\ wrapperPc' = "awaiting"
    /\ UNCHANGED <<requestMessages, requestOptions, currentBudget, usageHistory,
                   clock, lastError, wrapperResult>>
    /\ UNCHANGED notClientVars

\* The timer of the current attempt fires first (client.ts 224-228)
TimerFires ==
    /\ wrapperPc = "awaiting"
    /\ TruthyNumber(requestOptions.timeoutMs)
    /\ RetryCatch(TimeoutError)
    /\ UNCHANGED <<requestMessages, requestOptions, currentBudget, usageHistory,
                   clock, calls>>
    /\ UNCHANGED notClientVars

\* sendMessageToClaude, 103-104: chrome.storage.local.get rejects
ConfigFails(c) ==
    /\ calls[c].stage = "init"
    /\ Settle(c, "rejected", StorageError)
    /\ UNCHANGED <<requestMessages, requestOptions, currentBudget, usageHistory, clock>>
    /\ UNCHANGED notClientVars

\* sendMessageToClaude, 105-148: the estimate, the budget check, the dry
\* run, and the invocation of client.messages.create
CheckBudget(c) ==
    LET tokenEstimate == estimateMessageTokens(calls[c].messages)
        budgetCheck == checkBudgetLimits(tokenEstimate, currentBudget, usageHistory, clock)
    IN  /\ calls[c].stage = "init"
        /\ IF ~budgetCheck.allowed
           THEN Settle(c, "rejected", BudgetError(budgetCheck.reason))
           ELSE IF TruthyFlag(calls[c].options.dryRun)
           THEN Settle(c, "resolved", ClaudeResponse("[DRY RUN]", tokenEstimate, 0))
           ELSE /\ calls' = [calls EXCEPT ![c].stage = "outbound"]
                /\ UNCHANGED <<attempt, lastError, wrapperPc, wrapperResult>>
        /\ UNCHANGED <<requestMessages, requestOptions, currentBudget, usageHistory, clock>>
        /\ UNCHANGED notClientVars

\* sendMessageToClaude, 150-185: client.messages.create resolves
ApiResponds(c, usage) ==
    /\ calls[c].stage = "outbound"
    /\ IF TrackUsage(calls[c].options)
       THEN recordUsage(usage[1], usage[2], TRUE)
       ELSE UNCHANGED usageHistory
    /\ Settle(c, "resolved", ClaudeResponse("text", usage[1], usage[2]))
    /\ UNCHANGED <<requestMessages, requestOptions, currentBudget, clock>>
    /\ UNCHANGED notClientVars

\* sendMessageToClaude, 186-202: client.messages.create rejects
ApiFails(c, error) ==
    /\ calls[c].stage = "outbound"
    /\ IF TrackUsage(calls[c].options)
       THEN recordUsage(estimateMessageTokens(calls[c].messages), 0, FALSE)
       ELSE UNCHANGED usageHistory
    /\ Settle(c, "rejected", classifyApiError(error))
    /\ UNCHANGED <<requestMessages, requestOptions, currentBudget, clock>>
    /\ UNCHANGED notClientVars

\* Midnight (UTC) passes
Tick ==
    /\ clock < MaxClock
    /\ clock' = clock + 1
    /\ UNCHANGED <<requestMessages, requestOptions, currentBudget, usageHistory,
                   calls, attempt, lastError, wrapperPc, wrapperResult>>
    /\ UNCHANGED notClientVars

NextClient ==
    \/ SendMessageToClaudeWithRetry
    \/ BackoffElapses
    \/ TimerFires
    \/ Tick
    \/ \E c \in 1..Len(calls) :
        \/ ConfigFails(c)
        \/ CheckBudget(c)
        \/ \E usage \in ApiUsages : ApiResponds(c, usage)
        \/ \E error \in ApiErrors : ApiFails(c, error)

SpecClient == InitClient /\ [][NextClient]_vars

(***************************************************************************)
(* classifyApiError and calculateBackoff on their own: the error and the   *)
(* retry count and configuration are the arguments of one call.            *)
(***************************************************************************)
MaxWords == 2
MaxRetryCount == 4
RandomSteps == 4

StatusDigits ==
    {<<4, 0, 1>>, <<4, 0, 0>>, <<4, 2, 9>>, <<5, 0, 0>>, <<5, 0, 2>>,
     <<5, 0, 3>>, <<5, 0, 4>>, <<4, 0, 4>>, <<5, 0, 1>>, <<2, 0, 0>>,
     <<4, 0, 1, 0>>, <<0, 4, 0, 1>>, <<>>}

MessageWords ==
    {Word(w) : w \in {"ECONNREFUSED", "ETIMEDOUT", "timeout", "TIMEOUT",
                      "Timeout", "failed"}}
    \cup {StatusWord(d) : d \in StatusDigits}

Messages == UNION {[1..n -> MessageWords] : n \in 0..MaxWords}

\* What a caller can pass to classifyApiError: an Error, a value that is
\* no Error, or an error that is classified already
ThrownErrors ==
    {ErrorOf(m) : m \in Messages}
    \cup {NonError(<<w>>) : w \in MessageWords}
    \cup {TimeoutError, BudgetError("daily request limit")}

InitClassify ==
    /\ thrownError \in ThrownErrors
    /\ classified = NoError
    /\ backoffCount = 0
    /\ backoffConfig = DEFAULT_RETRY_CONFIG
    /\ backoffMs = NoBackoff
    /\ QuizIdle
    /\ EvalIdle
    /\ ClientIdle
    /\ ControllerIdle
    /\ PreprocessIdle
    /\ PipelineIdle
    /\ CacheIdle

ClassifyApiError ==
    /\ classified = NoError
    /\ classified' = classifyApiError(thrownError)
    /\ UNCHANGED <<thrownError, backoffCount, backoffConfig, backoffMs>>
    /\ UNCHANGED notParserVars

SpecClassify == InitClassify /\ [][ClassifyApiError]_vars

\* Math.random(): a fraction in [0, 1)
Randoms == {Frac(k, RandomSteps) : k \in 0..(RandomSteps - 1)}

BackoffConfigs ==
    {RetryConfig(3, 1000, m, f) :
        m \in {10000, 2500},
        f \in {FracOf(1), Frac(6, 5), Frac(3, 2), FracOf(2)}}

InitBackoff ==
    /\ backoffCount \in 0..MaxRetryCount
    /\ backoffConfig \in BackoffConfigs
    /\ backoffMs = NoBackoff
    /\ thrownError = NoError
    /\ classified = NoError
    /\ QuizIdle
    /\ EvalIdle
    /\ ClientIdle
    /\ ControllerIdle
    /\ PreprocessIdle
    /\ PipelineIdle
    /\ CacheIdle

CalculateBackoff ==
    /\ backoffMs = NoBackoff
    /\ \E random \in Randoms :
          backoffMs' = calculateBackoff(backoffCount, backoffConfig, random)
    /\ UNCHANGED <<backoffCount, backoffConfig, thrownError, classified>>
    /\ UNCHANGED notParserVars

SpecBackoff == InitBackoff /\ [][CalculateBackoff]_vars

(***************************************************************************)
(* One run of a controller.  The listeners registered before the run are   *)
(* any; listeners are added and removed until the run has ended.           *)
(***************************************************************************)
ListenerArrays ==
    {ls \in UNION {[1..n -> Listeners] : n \in 0..NumListeners} :
        \A i, j \in 1..Len(ls) : ls[i] = ls[j] => i = j}

\* What the services and the storage can reject with
ServiceErrors ==
    {ErrorOf(<<Word("Failed to evaluate response:"), Word("failed")>>),
     BudgetError("daily request limit"),
     NonError(<<Word("failed")>>)}

InvalidApiResponse ==
    ErrorOf(<<Word("Invalid API response: no questions or raw response found")>>)

InitController ==
    /\ controller \in {"quiz", "evaluation"}
    /\ listeners \in ListenerArrays
    /\ received = [l \in Listeners |-> <<>>]
    /\ logged = {}
    /\ runPc = "idle"
    /\ runScore = 0
    /\ runResponse = NoRunResponse
    /\ QuizIdle
    /\ EvalIdle
    /\ ClientIdle
    /\ ParserIdle
    /\ PreprocessIdle
    /\ PipelineIdle
    /\ CacheIdle

\* addEventListener: this.listeners.push(listener)
AddEventListener(l) ==
    /\ runPc \notin {"returned", "rejected"}
    /\ l \notin Range(listeners)
    /\ listeners' = Append(listeners, l)
    /\ UNCHANGED <<controller, received, logged, runPc, runScore, runResponse>>
    /\ UNCHANGED notControllerVars

\* removeEventListener: this.listeners = this.listeners.filter(l => l !== listener)
RemoveEventListener(l) ==
    /\ runPc \notin {"returned", "rejected"}
    /\ listeners' = SelectSeq(listeners, LAMBDA k : k # l)
    /\ listeners' # listeners
    /\ UNCHANGED <<controller, received, logged, runPc, runScore, runResponse>>
    /\ UNCHANGED notControllerVars

\* The run goes on after the events were emitted: to the await at next,
\* or, when emitEvent threw, to the catch block
Continue(e, next, resp, behaviour) ==
    LET c == emitEvent(e.listeners, e.received, e.logged,
                       Event(controller, "error", ErrorMessage(ListenerError)),
                       behaviour)
    IN  IF ~e.threw
        THEN /\ listeners' = e.listeners
             /\ received' = e.received
             /\ logged' = e.logged
             /\ runPc' = next
             /\ runResponse' = resp
        ELSE /\ listeners' = c.listeners
             /\ received' = c.received
             /\ logged' = c.logged
             /\ runPc' = IF c.threw THEN "rejected" ELSE "returned"
             /\ runResponse' = FailureResponse(ErrorMessage(ListenerError))

\* The catch block of generateQuiz and of evaluateResponse
Catch(error, behaviour) ==
    LET c == emitEvent(listeners, received, logged,
                       Event(controller, "error", ErrorMessage(error)), behaviour)
    IN  /\ listeners' = c.listeners
        /\ received' = c.received
        /\ logged' = c.logged
        /\ runPc' = IF c.threw THEN "rejected" ELSE "returned"
        /\ runResponse' = FailureResponse(ErrorMessage(error))

Emitted(statuses, behaviour) ==
    EmitAll(listeners, received, logged,
            [i \in 1..Len(statuses) |->
                Event(controller, statuses[i], <<Word(statuses[i])>>)],
            behaviour)

\* QuizController.generateQuiz up to await this.service.generateQuiz;
\* preprocessContent returns or throws
GenerateQuiz ==
    /\ controller = "quiz"
    /\ runPc = "idle"
    /\ \E behaviour \in Behaviours :
          \/ Continue(Emitted(<<>>, behaviour), "generating", runResponse, behaviour)
          \/ \E error \in ServiceErrors : Catch(error, behaviour)
    /\ UNCHANGED <<controller, runScore>>
    /\ UNCHANGED notControllerVars

\* this.service.generateQuiz resolves with questions, with a raw response
\* only, or with neither
QuizGenerated(apiResponse) ==
    /\ controller = "quiz"
    /\ runPc = "generating"
    /\ \E behaviour \in Behaviours :
          IF apiResponse \in {"questions", "raw"}
          THEN Continue(Emitted(<<>>, behaviour), "returned", SuccessResponse, behaviour)
          ELSE Catch(InvalidApiResponse, behaviour)
    /\ UNCHANGED <<controller, runScore>>
    /\ UNCHANGED notControllerVars

\* EvaluationController.evaluateResponse up to await this.service.evaluateResponse
EvaluateResponse ==
    /\ controller = "evaluation"
    /\ runPc = "idle"
    /\ \E behaviour \in Behaviours :
          Continue(Emitted(<<"started", "evaluating_response">>, behaviour),
                   "evaluating", runResponse, behaviour)
    /\ UNCHANGED <<controller, runScore>>
    /\ UNCHANGED notControllerVars

\* this.service.evaluateResponse resolves with scores.overall = overall
Evaluated(overall) ==
    /\ controller = "evaluation"
    /\ runPc = "evaluating"
    /\ runScore' = overall
    /\ \E behaviour \in Behaviours :
          Continue(Emitted(<<"storing_evaluation">>, behaviour),
                   "storing", runResponse, behaviour)
    /\ UNCHANGED controller
    /\ UNCHANGED notControllerVars

\* EvaluationStorage.saveEvaluation resolves
EvaluationStored ==
    /\ controller = "evaluation"
    /\ runPc = "storing"
    /\ \E behaviour \in Behaviours :
          IF runScore < 7
          THEN Continue(Emitted(<<"generating_follow_up">>, behaviour),
                        "generating_follow_up", runResponse, behaviour)
          ELSE Continue(Emitted(<<"complete">>, behaviour),
                        "returned", SuccessResponse, behaviour)
    /\ UNCHANGED <<controller, runScore>>
    /\ UNCHANGED notControllerVars

\* this.service.generateFollowUpQuestions resolves
FollowUpGenerated ==
    /\ controller = "evaluation"
    /\ runPc = "generating_follow_up"
    /\ runPc' = "storing_follow_up"
    /\ UNCHANGED <<controller, listeners, received, logged, runScore, runResponse>>
    /\ UNCHANGED notControllerVars

\* EvaluationStorage.saveFollowUpQuestions resolves
FollowUpStored ==
    /\ controller = "evaluation"
    /\ runPc = "storing_follow_up"
    /\ \E behaviour \in Behaviours :
          Continue(Emitted(<<"complete">>, behaviour),
                   "returned", SuccessResponse, behaviour)
    /\ UNCHANGED <<controller, runScore>>
    /\ UNCHANGED notControllerVars

\* The promise the run awaits rejects
AwaitRejects(error) ==
    /\ runPc \in {"generating", "evaluating", "storing", "generating_follow_up",
                  "storing_follow_up"}
    /\ \E behaviour \in Behaviours : Catch(error, behaviour)
    /\ UNCHANGED <<controller, runScore>>
    /\ UNCHANGED notControllerVars

NextController ==
    \/ \E l \in Listeners : AddEventListener(l)
    \/ \E l \in Listeners : RemoveEventListener(l)
    \/ GenerateQuiz
    \/ \E apiResponse \in {"questions", "raw", "none"} : QuizGenerated(apiResponse)
    \/ EvaluateResponse
    \/ \E overall \in {5, 7} : Evaluated(overall)
    \/ EvaluationStored
    \/ FollowUpGenerated
    \/ FollowUpStored
    \/ \E error \in ServiceErrors : AwaitRejects(error)

SpecController == InitController /\ [][NextController]_vars

(***************************************************************************)
(* Properties of parseQuizResponse.                                        *)
(***************************************************************************)
Done == pc = "done"
Returns == Done /\ ~result.threw
Questions == result.quiz.questions
Validating == validateQuestionsOf(options)

\* C1: for every response and every ParsingOptions value parseQuizResponse
\* terminates and returns a Quiz; it never throws.
\* (Each step's only guard is its value of pc, and every step moves pc on
\* towards "done": a call that has not returned can always take its next step.)
C1_NeverThrows ==
    /\ Done => ~result.threw
    /\ ~Done => pc \in {"json", "markdown", "structured", "failed"}

\* a call returned although JSON.parse or normalizeQuestion threw inside
C1_Witness == Returns /\ parseJSONBody(response).tag = "threw"

\* C2: a returned Quiz has questions and no error, or no question and a
\* non-empty error.
C2_QuestionsOrError ==
    Returns =>
        \/ Len(Questions) > 0 /\ ~result.quiz.hasError
        \/ Len(Questions) = 0 /\ result.quiz.hasError /\ result.quiz.error # ""

\* validation dropped every question that a format had found
C2_Witness ==
    /\ Returns
    /\ Validating
    /\ result.quiz.error = "No valid questions found after validation"

\* C4: a returned question with options never keeps a bare letter A-D that
\* indexes one of its options: the letter is replaced by the option's text.
C4_LetterResolved ==
    Returns =>
        \A i \in 1..Len(Questions) :
            Questions[i].hasOptions =>
                ~(/\ IsSingleLetter(Questions[i].correctAnswer)
                  /\ LeadingLetterIndex(Questions[i].correctAnswer)
                         < Len(Questions[i].options))

\* C5: after validation the ids of the returned questions are positive and no
\* two returned questions share an id.
C5_UniqueIds ==
    (Returns /\ Validating) =>
        \A i, j \in 1..Len(Questions) :
            Questions[i].id > 0 /\ (i # j => Questions[i].id # Questions[j].id)

\* C6: the end-to-end input is parsed into exactly one multiple_choice question
\* whose correctAnswer is the text of option B and whose explanation is not empty.
C6_EndToEnd ==
    (Returns /\ response = EndToEndInput) =>
        /\ Len(Questions) = 1
        /\ Questions[1].type = "multiple_choice"
        /\ Questions[1].correctAnswer
               = "The process plants use to convert light to energy"
        /\ Questions[1].hasExplanation

\* the fenced JSON block parses and holds a question that normalizeQuestion keeps
UsableElement(e) == e.isObject /\ e.text.t = "string" /\ e.text.s # ""
JsonYieldsQuestions(resp) ==
    /\ HasFence(resp.lines)
    /\ resp.json.parses
    /\ resp.json.hasQuestions
    /\ \E i \in 1..Len(resp.json.questions) : UsableElement(resp.json.questions[i])
    /\ \A i \in 1..Len(resp.json.questions) :
           UsableElement(resp.json.questions[i]) =>
               ~(Truthy(resp.json.questions[i].type)
                 /\ resp.json.questions[i].type.t # "string")

\* C7: the formats are tried in the order JSON, markdown, structured text and
\* the first that yields a question is taken: a later format is reached only
\* when the earlier ones yielded nothing, and when the fenced JSON yields
\* questions every returned question is one of the JSON block's.
C7_JsonFirst ==
    /\ pc \in {"markdown", "structured", "failed"} => ~JsonYieldsQuestions(response)
    /\ pc \in {"structured", "failed"} => MdHeads(response.lines) = {}
    /\ pc = "failed" => parseStructuredResponse(response).tag = "null"
    /\ (Done /\ JsonYieldsQuestions(response)) =>
           /\ ~result.threw
           /\ result.quiz.error
                  # "Failed to parse quiz response into a structured format"
           /\ \A i \in 1..Len(Questions) :
                  \E k \in 1..Len(response.json.questions) :
                      /\ UsableElement(response.json.questions[k])
                      /\ Questions[i].text = Trim(response.json.questions[k].text.s)

\* a response with a usable fenced JSON block and a markdown question section
C7_Witness ==
    /\ Returns
    /\ JsonYieldsQuestions(response)
    /\ MdHeads(response.lines) # {}
    /\ Len(Questions) > 0

\* a JSON response whose only question is multiple choice with one option
OneOptionOnly(resp) ==
    /\ resp.lines = <<Fence>>
    /\ resp.json.parses /\ resp.json.hasQuestions
    /\ Len(resp.json.questions) = 1
    /\ UsableElement(resp.json.questions[1])
    /\ resp.json.questions[1].type = JStr("Multiple Choice")
    /\ resp.json.questions[1].options = JArr(<<"Paris">>)

\* C8: with validation on, no returned multiple_choice question has fewer than
\* 2 options, and when the only question is such a question the result is
\* questions = [] with error "No valid questions found after validation".
C8_MultipleChoiceFloor ==
    (Returns /\ Validating) =>
        /\ \A i \in 1..Len(Questions) :
               Questions[i].type = "multiple_choice" =>
                   Questions[i].hasOptions /\ Len(Questions[i].options) >= 2
        /\ OneOptionOnly(response) =>
               result.quiz = ErrorQuiz("No valid questions found after validation")

C8_Witness == Returns /\ Validating /\ OneOptionOnly(response)

\* C9: every returned question has a non-empty trimmed text.
C9_NonEmptyText ==
    Returns =>
        \A i \in 1..Len(Questions) :
            Questions[i].text # "" /\ Trim(Questions[i].text) = Questions[i].text


EvalDone == evalPc = "done"

\* C3: for every input string parseEvaluationResponse returns an
\* EvaluationResult and parseFollowUpResponse returns a
\* FollowUpQuestionsResult; neither throws, also when the response holds a
\* fenced block whose content is not valid JSON.
C3_EvalNeverThrows ==
    EvalDone => evalResult.tag # "threw" /\ followUpResult.tag # "threw"

\* C10: for every response whose fenced JSON block parses, the result of
\* parseEvaluationResponse has every field defined and defaulted: the three
\* feedback lists and missingElements are arrays (empty when omitted),
\* scores.overall is a number (0 when omitted), scores.criteria is a map (empty
\* when omitted), summary and explanation are strings; for
\* {"scores":{"overall":7}} the arrays are empty and criteria is {}.
C10_AllFieldsDefaulted ==
    (/\ EvalDone /\ evalResult.tag = "ok"
     /\ HasFenceAtom(evalResponse.text) /\ evalResponse.json.parses)
    => LET r == evalResult.v
           json == evalResponse.json
           ArrayOrEmpty(got, given) ==
               got.t = "array" /\ (given.t = "undefined" => got = JArr(<<>>))
       IN  /\ ArrayOrEmpty(r.feedback.strengths, json.feedback.strengths)
           /\ ArrayOrEmpty(r.feedback.improvements, json.feedback.improvements)
           /\ ArrayOrEmpty(r.feedback.misconceptions, json.feedback.misconceptions)
           /\ ArrayOrEmpty(r.missingElements, json.missingElements)
           /\ r.scores.overall \in Int
           /\ json.scores.overall.t = "undefined" => r.scores.overall = 0
           /\ r.scores.criteria.t = "object"
           /\ json.scores.criteria.t = "undefined" => r.scores.criteria = JMap({})
           /\ r.feedback.summary \in STRING
           /\ r.explanation \in STRING
           /\ json = ScoresOnly =>
                 /\ r.feedback.strengths = JArr(<<>>)
                 /\ r.feedback.improvements = JArr(<<>>)
                 /\ r.feedback.misconceptions = JArr(<<>>)
                 /\ r.missingElements = JArr(<<>>)
                 /\ r.scores.criteria = JMap({})
                 /\ r.scores.overall = 7

\* the first 'Overall: X/10' of a text: the index of its score, 0 when there is none
FirstOverall(text) ==
    LET at == {i \in 1..Len(text) :
                  ScoreIndex(text, i) > 0 /\ Lower(LastWord(text[i])) = "overall"}
    IN  IF at = {} THEN 0 ELSE ScoreIndex(text, Least(at))

\* fenced-JSON extraction fails: no fenced block, or one that JSON.parse rejects
JsonExtractionFails(resp) == ~HasFenceAtom(resp.text) \/ ~resp.json.parses

EvaluationReturned == EvalDone /\ evalResult.tag # "none"
FollowUpReturned == EvalDone /\ followUpResult.tag # "none"

\* C11: when fenced-JSON extraction fails (no fenced block, or a fenced block
\* that is not valid JSON) parseEvaluationResponse falls back to the heuristic
\* extraction: a response containing 'Overall: X/10' yields scores.overall = X.
C11_HeuristicFallback ==
    (/\ EvaluationReturned
     /\ JsonExtractionFails(evalResponse)
     /\ FirstOverall(evalResponse.text) > 0)
    => /\ evalResult.tag = "ok"
       /\ evalResult.v.scores.overall
              = evalResponse.text[FirstOverall(evalResponse.text)].n

\* the fixed minimal result of parseEvaluationResponse
MinimalEvaluation(raw) ==
    EvaluationResult(0, JMap({}), JArr(<<>>), JArr(<<"Could not parse evaluation">>),
                     JArr(<<>>), "Unable to process the evaluation", JArr(<<>>),
                     "The system encountered an error processing the evaluation", raw)

\* the heuristic finds neither an overall score nor a criterion score
NoScoreFound(text) == \A i \in 1..Len(text) : ScoreIndex(text, i) = 0

\* C12: when neither JSON extraction nor the heuristic succeeds (the heuristic
\* fails exactly when it finds neither an overall nor a criterion score),
\* parseEvaluationResponse returns the fixed minimal result with raw the
\* original text, and never a partially filled heuristic result.
C12_MinimalResult ==
    /\ extractStructuredEvaluation(evalResponse.text).tag = "null"
           <=> NoScoreFound(evalResponse.text)
    /\ (/\ EvaluationReturned
        /\ JsonExtractionFails(evalResponse)
        /\ NoScoreFound(evalResponse.text))
       => /\ evalResult.tag = "ok"
          /\ evalResult.v = MinimalEvaluation(evalResponse)

\* the fixed single follow-up question
FallbackFollowUp ==
    FollowUpQuestion("What else would you like to know about this topic?",
                     "General follow-up to encourage further exploration",
                     JUndef, JUndef)

\* C13: parseFollowUpResponse always returns at least one follow-up question;
\* when nothing can be extracted, by the JSON path or by the list heuristic,
\* the result is the fixed single item.
C13_AtLeastOneFollowUp ==
    FollowUpReturned =>
        /\ followUpResult.tag = "ok"
        /\ Len(followUpResult.v.followUpQuestions) >= 1
        /\ (/\ ~HasFenceAtom(evalResponse.text)
            /\ extractStructuredFollowUps(evalResponse.text).tag = "null")
           => followUpResult.v.followUpQuestions = <<FallbackFollowUp>>

(***************************************************************************)
(* Properties of the Claude client.                                        *)
(***************************************************************************)
TokenEstimateOf(c) == estimateMessageTokens(calls[c].messages)

\* A ceiling that is configured (whatever its value) would be exceeded by
\* a request of tokenEstimate tokens made now
WouldExceed(tokenEstimate) ==
    LET today == UsedOnDay(usageHistory, IsoDay(clock))
        thisMonth == UsedInMonth(usageHistory, IsoMonth(clock))
    IN  \/ /\ currentBudget.maxTokensPerRequest.defined
           /\ tokenEstimate > currentBudget.maxTokensPerRequest.v
        \/ /\ currentBudget.maxTokensPerDay.defined
           /\ SumTotalTokens(today) + tokenEstimate > currentBudget.maxTokensPerDay.v
        \/ /\ currentBudget.maxRequestsPerDay.defined
           /\ Len(today) + 1 > currentBudget.maxRequestsPerDay.v
        \/ /\ currentBudget.maxTokensPerMonth.defined
           /\ SumTotalTokens(thisMonth) + tokenEstimate > currentBudget.maxTokensPerMonth.v

\* The step in which call c passes from the awaited configuration to the
\* budget check (and not the step in which loading the configuration fails)
ChecksBudget(c) ==
    /\ calls[c].stage = "init"
    /\ calls'[c].stage # "init"
    /\ calls'[c].v # StorageError

Refused(call) ==
    /\ call.stage = "rejected"
    /\ call.v.kind = "ClaudeApiError"
    /\ call.v.type = "invalid_request_error"
    /\ ~call.v.retryable
    /\ call.v.message[1] = Word("Budget limit exceeded:")

\* C14: whenever a configured ceiling (tokens per request, tokens per day,
\* requests per day, tokens per month) would be exceeded by a request,
\* sendMessageToClaude rejects it with a non-retryable invalid_request
\* error in the very step of the budget check, so that no outbound call is
\* made for it and the usage ledger is not appended to; a refused call
\* never changes again, and when the wrapper awaits the call it throws the
\* refusal without a further attempt.
C14_BudgetRefusal ==
    [][\A c \in 1..Len(calls) :
          /\ (ChecksBudget(c) /\ WouldExceed(TokenEstimateOf(c))) =>
                /\ Refused(calls'[c])
                /\ usageHistory' = usageHistory
                /\ IsCurrent(c) =>
                      /\ wrapperPc' = "thrown"
                      /\ wrapperResult' = calls'[c].v
                      /\ attempt' = attempt
          /\ Refused(calls[c]) => calls'[c] = calls[c]]_vars

\* The call invoked by the wrapper's current attempt
CurrentCall == CHOOSE c \in 1..Len(calls) : calls[c].attempt = attempt

WrapperDone == wrapperPc \in {"returned", "thrown"}

\* The step in which the current attempt fails, and the error it fails
\* with: the rejection of the awaited call, or else the timer's error
AttemptFails == wrapperPc = "awaiting" /\ wrapperPc' \in {"backoff", "thrown"}

AttemptError ==
    IF calls'[CurrentCall].stage = "rejected"
    THEN classifyApiError(calls'[CurrentCall].v)
    ELSE TimeoutError

\* C15: sendMessageToClaudeWithRetry starts a further attempt only after
\* the previous attempt failed with a retryable classified error and
\* fewer than maxRetries retries have been made, so it makes at most
\* maxRetries + 1 attempts; on a non-retryable failure or once retries
\* are exhausted it throws the classified error of the last attempt; when
\* an attempt succeeds it returns that attempt's response; once it has
\* returned or thrown it makes no further attempt.
C15_RetryLoop ==
    /\ [](/\ Len(calls) <= requestOptions.retryConfig.maxRetries + 1
          /\ attempt <= requestOptions.retryConfig.maxRetries
          /\ wrapperPc # "idle" => Len(calls) = attempt + 1)
    /\ [][/\ Len(calls') > Len(calls) /\ Len(calls) > 0 =>
                /\ wrapperPc = "backoff"
                /\ lastError.kind = "ClaudeApiError"
                /\ lastError.retryable
                /\ attempt < requestOptions.retryConfig.maxRetries
                /\ attempt' = attempt + 1
          /\ AttemptFails =>
                /\ lastError' = AttemptError
                /\ wrapperPc' = "backoff" <=>
                      /\ AttemptError.retryable
                      /\ attempt < requestOptions.retryConfig.maxRetries
                /\ wrapperPc' = "thrown" => wrapperResult' = AttemptError
          /\ (wrapperPc = "awaiting" /\ calls[CurrentCall].stage # "resolved"
                /\ calls'[CurrentCall].stage = "resolved") =>
                /\ wrapperPc' = "returned"
                /\ wrapperResult' = calls'[CurrentCall].v
          /\ wrapperPc' = "returned" /\ wrapperPc # "returned" =>
                /\ calls'[CurrentCall].stage = "resolved"
                /\ wrapperResult' = calls'[CurrentCall].v
          /\ WrapperDone =>
                UNCHANGED <<wrapperPc, wrapperResult, attempt, lastError>>
                /\ Len(calls') = Len(calls)]_vars

\* The retries are exhausted: the last of several attempts failed with a
\* retryable error, which is thrown
C15_Witness ==
    /\ wrapperPc = "thrown"
    /\ attempt >= 1
    /\ attempt = requestOptions.retryConfig.maxRetries
    /\ wrapperResult.retryable
    /\ wrapperResult = lastError

Settled(call) == call.stage \in {"resolved", "rejected"}

\* The timer has won the attempt that invoked call c: the call is still
\* running and the wrapper no longer awaits it
Abandoned(c) == ~Settled(calls[c]) /\ ~IsCurrent(c)

\* C16: when timeoutMs is set each attempt is a race between the call and
\* the timer; the first to settle decides the attempt, and the loser's
\* later settlement is discarded: when an abandoned call resolves or
\* rejects after the timer has won, neither the wrapper (its position,
\* attempt, last error and result) nor the usage ledger changes; without
\* timeoutMs no call is ever abandoned.
C16_LoserDiscarded ==
    /\ [](\A c \in 1..Len(calls) :
            Abandoned(c) => TruthyNumber(requestOptions.timeoutMs))
    /\ [][\A c \in 1..Len(calls) :
            (Abandoned(c) /\ Settled(calls'[c])) =>
                /\ UNCHANGED <<wrapperPc, wrapperResult, attempt, lastError>>
                /\ usageHistory' = usageHistory]_vars

(***************************************************************************)
(* Properties of classifyApiError and calculateBackoff.                    *)
(***************************************************************************)
Classified == classified # NoError

HasConnectionWord(message) ==
    \E i \in 1..Len(message) : message[i].w \in {"ECONNREFUSED", "ETIMEDOUT"}

HasTimeoutWord(message) ==
    \E i \in 1..Len(message) : message[i].w \in {"timeout", "TIMEOUT"}

\* The status code embedded in the message: the number after the first
\* 'status ', 0 when there is none
EmbeddedStatus(message) ==
    IF StatusMatch(message) = 0 THEN 0
    ELSE ParseInt(message[StatusMatch(message)].digits)

RetryableTypes ==
    {"timeout_error", "connection_error", "rate_limit_error", "api_error"}

\* The type the classification rule gives to an Error with this message
TypeByRule(message) ==
    IF HasConnectionWord(message) THEN "connection_error"
    ELSE IF HasTimeoutWord(message) THEN "timeout_error"
    ELSE IF EmbeddedStatus(message) = 401 THEN "authentication_error"
    ELSE IF EmbeddedStatus(message) = 400 THEN "invalid_request_error"
    ELSE IF EmbeddedStatus(message) = 429 THEN "rate_limit_error"
    ELSE IF EmbeddedStatus(message) \in {500, 502, 503, 504} THEN "api_error"
    ELSE "unknown_error"

\* C17: classifyApiError looks for the connection and timeout substrings
\* in the message of an Error before any status code (both retryable),
\* otherwise maps the embedded status code 401 to authentication, 400 to
\* invalid_request (not retryable), 429 to rate_limit and 500/502/503/504
\* to server error (retryable), and classifies everything else, a thrown
\* value that is no Error included, as unknown (not retryable); an error
\* that is classified already is returned as it is; the retryable kinds
\* are exactly timeout, connection, rate-limit and server.
C17_Classification ==
    Classified =>
        /\ classified.kind = "ClaudeApiError"
        /\ classified.retryable <=> classified.type \in RetryableTypes
        /\ thrownError.kind = "ClaudeApiError" => classified = thrownError
        /\ thrownError.kind = "Error" =>
              /\ classified.type = TypeByRule(thrownError.message)
              /\ classified.statusCode =
                    IF classified.type \in {"connection_error", "timeout_error",
                                            "unknown_error"}
                    THEN Undefined
                    ELSE Num(EmbeddedStatus(thrownError.message))
        /\ thrownError.kind = "other" =>
              /\ classified.type = "unknown_error"
              /\ classified.statusCode = Undefined

\* A message with a timeout substring and a status code of a
\* non-retryable kind is classified as a timeout
C17_Witness ==
    /\ Classified
    /\ thrownError.kind = "Error"
    /\ HasTimeoutWord(thrownError.message)
    /\ EmbeddedStatus(thrownError.message) = 401
    /\ classified.type = "timeout_error"
    /\ classified.retryable

BackoffComputed == backoffMs # NoBackoff

\* initialDelayMs * backoffFactor^n, the delay before the cap
UncappedDelay(n, config) ==
    FracMul(FracOf(config.initialDelayMs), FracPow(config.backoffFactor, n))

BelowCap(n, config) ==
    ~FracLeq(FracOf(config.maxDelayMs), UncappedDelay(n, config))

\* The value is min(initialDelayMs * backoffFactor^n, maxDelayMs) plus a
\* jitter of at most 20% of that delay, and so at least 0.8 of it
BackoffValue ==
    LET delay == FracMin(UncappedDelay(backoffCount, backoffConfig),
                         FracOf(backoffConfig.maxDelayMs))
    IN  /\ FracLeq(delay, backoffMs)
        /\ FracLeq(backoffMs, FracMul(Frac(12, 10), delay))
        /\ FracLeq(FracMul(Frac(8, 10), delay), backoffMs)

\* calculateBackoff(backoffCount), whatever its jitter was, is not above
\* calculateBackoff(backoffCount + 1), whatever its jitter will be, while
\* both delays are below the cap
NextNotSmaller ==
    (BelowCap(backoffCount, backoffConfig) /\ BelowCap(backoffCount + 1, backoffConfig)) =>
        \A random \in Randoms :
            FracLeq(backoffMs, calculateBackoff(backoffCount + 1, backoffConfig, random))

\* C18 (as stated): for a fixed retry config and every jitter outcome,
\* calculateBackoff(n) is non-decreasing in n while the un-jittered delay
\* is below maxDelayMs, it is at least 0.8 * initialDelayMs *
\* backoffFactor^n up to the cap, and its value is the capped delay plus
\* a jitter of at most 20% of that delay.
C18_Original ==
    BackoffComputed => BackoffValue /\ NextNotSmaller

\* C18 (amended): the same, where calculateBackoff(n) is non-decreasing
\* in n for every jitter outcome when backoffFactor is at least 1.2.
C18_Backoff ==
    BackoffComputed =>
        /\ BackoffValue
        /\ FracLeq(Frac(12, 10), backoffConfig.backoffFactor) => NextNotSmaller

\* A jittered delay below the cap, with a factor of at least 1.2, followed
\* by a delay that is below the cap as well
C18_Witness ==
    /\ BackoffComputed
    /\ backoffCount >= 1
    /\ FracLeq(Frac(12, 10), backoffConfig.backoffFactor)
    /\ BelowCap(backoffCount + 1, backoffConfig)
    /\ ~FracLeq(backoffMs, UncappedDelay(backoffCount, backoffConfig))

(***************************************************************************)
(* Properties of the controllers.                                          *)
(***************************************************************************)
LastOf(seq) == seq[Len(seq)]

\* What listener l is called with in the step
Added(l) == SubSeq(received'[l], Len(received[l]) + 1, Len(received'[l]))

RunStarts == runPc = "idle" /\ runPc' # "idle"
RunSucceeds == runPc # "returned" /\ runPc' = "returned" /\ runResponse'.success
RunFails == runPc # "returned" /\ runPc' = "returned" /\ ~runResponse'.success

\* The progress events of a quiz generation, in their order
QuizProgressEvents ==
    <<"started", "processing_content", "calling_api", "parsing_response",
      "storing_quiz", "complete">>

ProgressPercent ==
    [started |-> 5, processing_content |-> 20, calling_api |-> 40,
     parsing_response |-> 80, storing_quiz |-> 90, complete |-> 100]

IsProgressEvent(event, status) ==
    event.status = status /\ event.progress = Num(ProgressPercent[status])

\* The events are progress events in the order of the enum, except that
\* the last may be an error event
InProgressOrder(events) ==
    /\ \A i \in 1..Len(events) :
          \/ i = Len(events) /\ events[i].status = "error"
          \/ \E s \in Range(QuizProgressEvents) : IsProgressEvent(events[i], s)
    /\ \A i, j \in 1..Len(events) :
          (i < j /\ events[j].status # "error") =>
              events[i].progress.v < events[j].progress.v

\* C19: during one QuizController.generateQuiz run the registered
\* listeners receive the progress events in the order started (5),
\* processing_content (20), calling_api (40), parsing_response (80),
\* storing_quiz (90), complete (100): the run starts with started (5) for
\* every registered listener, a successful run ends with complete (100),
\* and what a listener has received is always in that order; a run that
\* fails ends with an error event carrying the error message.
C19_ProgressEvents ==
    [][controller = "quiz" =>
          /\ \A l \in Listeners : InProgressOrder(received'[l])
          /\ \A l \in Range(listeners) :
                /\ RunStarts =>
                      /\ received'[l] # <<>>
                      /\ IsProgressEvent(received'[l][1], "started")
                /\ RunSucceeds =>
                      /\ received'[l] # <<>>
                      /\ IsProgressEvent(LastOf(received'[l]), "complete")
                /\ RunFails =>
                      /\ received'[l] # <<>>
                      /\ LastOf(received'[l]).status = "error"
                      /\ LastOf(received'[l]).error = runResponse'.error]_vars

\* C20: when a registered listener throws while handling an event, every
\* other registered listener is still called with that event, and the
\* exception does not reach the emitting operation: generateQuiz and
\* evaluateResponse never reject, never report the listener's exception
\* as their failure, and call all listeners with the same events; a
\* listener that is not registered (never added, or removed with
\* removeEventListener) is called with no event emitted afterwards.
C20_ListenerIsolation ==
    /\ [](runPc # "rejected")
    /\ []((runPc = "returned" /\ ~runResponse.success) =>
             runResponse.error # ErrorMessage(ListenerError))
    /\ [][/\ \A l \in Listeners \ Range(listeners) : received'[l] = received[l]
          /\ (\E l \in Listeners : received'[l] # received[l]) =>
                \A l \in Range(listeners) :
                    /\ Added(l) # <<>>
                    /\ \A k \in Range(listeners) \cap Range(listeners') :
                          /\ Len(Added(l)) <= Len(Added(k))
                          /\ Added(l) = SubSeq(Added(k), 1, Len(Added(l)))
          /\ \A thrown \in logged' \ logged :
                \A k \in Range(listeners) \cap Range(listeners') :
                    \E i \in 1..Len(Added(k)) : Added(k)[i].status = thrown[2]]_vars

\* A run of evaluateResponse that succeeded although a listener threw on
\* the first event, which another listener received
C20_Witness ==
    \E l, k \in Listeners :
        /\ l # k
        /\ <<l, "started">> \in logged
        /\ received[k] # <<>>
        /\ received[k][1].status = "started"
        /\ runPc = "returned"
        /\ runResponse.success
(***************************************************************************)
(* The content preprocessor: one call of preprocessContent, or one call of *)
(* the exported truncateContent, on a text of passages.                    *)
(***************************************************************************)
\* most passages of a generated text
MaxPassages == 3

Digits(len) == <<Chunk("word", len)>>

Passages ==
    { Digits(5000),
      Digits(1666),
      Digits(8),
      \* two sentences
      <<Chunk("word", 1660), Chunk("stop", 1), Chunk("space", 1),
        Chunk("word", 3), Chunk("stop", 1)>>,
      \* markup and a trailing space
      <<Chunk("tag", 3), Chunk("word", 1658), Chunk("tag", 4), Chunk("space", 1)>>,
      \* "Rome is a <1653 digits>.  " and "Rome is a <8 digits>"
      <<Chunk("definition", 1663), Chunk("stop", 1), Chunk("space", 2)>>,
      <<Chunk("definition", 18)>>,
      \* a numbered list item on a line of its own
      <<Chunk("word", 3), Chunk("newline", 1), Chunk("word", 1), Chunk("stop", 1),
        Chunk("space", 1), Chunk("word", 3)>>,
      \* nothing but spaces
      <<Chunk("space", 5000)>> }

\* a blank line, a space, a line break
Separators ==
    { <<Chunk("newline", 1), Chunk("newline", 1)>>,
      <<Chunk("space", 1)>>,
      <<Chunk("newline", 1)>> }

RECURSIVE PassageTexts(_)
\* the texts of exactly n passages
PassageTexts(n) ==
    IF n = 1 THEN Passages
    ELSE {t \o s \o q : t \in PassageTexts(n - 1), s \in Separators, q \in Passages}

\* Articles of more paragraphs, 5000 characters each
LongArticles ==
    { JoinParagraphs(<<Digits(2499), Digits(2499)>>),
      JoinParagraphs(<<Digits(1666),
                       <<Chunk("word", 1660), Chunk("stop", 1), Chunk("space", 1),
                         Chunk("word", 3), Chunk("stop", 1)>>,
                       Digits(1664)>>),
      JoinParagraphs(<<Digits(8), Digits(996),
                       <<Chunk("word", 3), Chunk("newline", 1), Chunk("word", 1),
                         Chunk("stop", 1), Chunk("space", 1), Chunk("word", 3)>>,
                       <<Chunk("word", 3970), Chunk("stop", 1), Chunk("space", 1),
                         Chunk("word", 3), Chunk("stop", 1)>>,
                       Digits(8)>>) }

Contents == {<<>>} \cup UNION {PassageTexts(n) : n \in 1..MaxPassages} \cup LongArticles

\* the maxTokens a caller passes for a text
MaxTokensFor(text) == {Undefined, Num(50), Num(200), Num(1000), Num(Tokens(text) + 100)}

InitPreprocess ==
    /\ articleContent \in Contents
    /\ preprocessPc \in {"preprocess", "truncate"}
    /\ preprocessingOptions \in
           {PreprocessingOptions(m, t) :
               m \in MaxTokensFor(articleContent),
               t \in IF preprocessPc = "preprocess" THEN {"undefined", "false"}
                     ELSE {"undefined"}}
    /\ processedContent = <<>>
    /\ QuizIdle
    /\ EvalIdle
    /\ ClientIdle
    /\ ParserIdle
    /\ ControllerIdle
    /\ PipelineIdle
    /\ CacheIdle

\* preprocessContent(content, options)
PreprocessContent ==
    /\ preprocessPc = "preprocess"
    /\ processedContent' = preprocessContent(articleContent, preprocessingOptions)
    /\ preprocessPc' = "preprocessed"
    /\ UNCHANGED <<articleContent, preprocessingOptions, notPreprocessVars>>

\* truncateContent(articleContent, maxTokens)
TruncateContent ==
    /\ preprocessPc = "truncate"
    /\ processedContent' =
           truncateContent(articleContent,
                           IF preprocessingOptions.maxTokens.defined
                           THEN preprocessingOptions.maxTokens.v
                           ELSE MAX_CONTENT_TOKENS)
    /\ preprocessPc' = "truncated"
    /\ UNCHANGED <<articleContent, preprocessingOptions, notPreprocessVars>>

NextPreprocess == PreprocessContent \/ TruncateContent

SpecPreprocess == InitPreprocess /\ [][NextPreprocess]_vars

(***************************************************************************)
(* Properties of preprocessContent.                                        *)
(***************************************************************************)
\* The text holds a truncated, summarized or omitted marker
HasMarker(text) == \E i \in 1..Len(text) : text[i] \in Markers

\* preprocessContent has returned for a 5000-character text and maxTokens 50
TightCall ==
    /\ preprocessPc = "preprocessed"
    /\ ContentLength(articleContent) = 5000
    /\ preprocessingOptions.maxTokens = Num(50)

\* The estimate of the largest section (text between blank lines) of a text
LargestUnit(text) ==
    LET sections == splitIntoSections(text)
        sizes == {Tokens(sections[i]) : i \in 1..Len(sections)}
    IN  IF sizes = {} THEN 0 ELSE CHOOSE x \in sizes : \A y \in sizes : y <= x

\* The estimate of the markers and separators at the seams of a truncated text
SeamTokens ==
    Tokens(JoinParagraphs(<<<<>>, <<SummarizedMarker>>, <<EllipsisMarker>>,
                            <<OmittedMarker>>, <<>>>>))

\* C21: for a 5000-character text, preprocessContent(text, {maxTokens: 50})
\* returns a string whose estimated token count is at most 50 plus the
\* overshoot of one kept unit (the largest section of the text, with the
\* markers at the seams), and that holds at least one truncated, summarized or
\* omitted marker.
C21_TruncationBound ==
    TightCall =>
        /\ Tokens(processedContent)
               <= 50 + LargestUnit(articleContent) + SeamTokens
        /\ HasMarker(processedContent)

\* preprocessContent has returned for maxTokens = estimate(text) + 100
UnderBudgetCall ==
    /\ preprocessPc = "preprocessed"
    /\ preprocessingOptions.maxTokens = Num(Tokens(articleContent) + 100)

\* C22 as stated: with maxTokens = estimate(text) + 100, preprocessContent
\* returns the text unchanged.
C22_Original == UnderBudgetCall => processedContent = articleContent

\* The text has no markup, no line break, single spaces only and no space at
\* either end
IsClean(text) ==
    /\ \A i \in 1..Len(text) :
          /\ text[i].kind \notin {"tag", "newline"}
          /\ text[i].kind = "space" =>
                /\ text[i].len = 1
                /\ 1 < i /\ i < Len(text)
                /\ text[i - 1].kind # "space"

\* The KEY TERMS block of a returned text, and what follows it
KeyTermsOf(text) == SelectSeq(text, LAMBDA c : c.kind = "keyterms")
BodyOf(text) == SelectSeq(text, LAMBDA c : c.kind # "keyterms")

\* C22 (amended): with maxTokens = estimate(text) + 100, preprocessContent
\* returns the KEY TERMS block followed by the cleaned text, without any
\* marker, whenever the KEY TERMS block is estimated at no more than 100
\* tokens; the text comes back unchanged when it is already clean and no key
\* term is extracted from it.
C22_UnderBudget ==
    UnderBudgetCall =>
        /\ Tokens(KeyTermsOf(processedContent)) <= 100 =>
              /\ ~HasMarker(processedContent)
              /\ BodyOf(processedContent) = cleanContent(articleContent)
        /\ (IsClean(articleContent) /\ KeyTermsOf(processedContent) = <<>>) =>
              processedContent = articleContent

\* A text with a blank line and a key term came back cleaned, behind its
\* KEY TERMS block, without a marker
C22_Witness ==
    /\ UnderBudgetCall
    /\ processedContent # articleContent
    /\ KeyTermsOf(processedContent) # <<>>
    /\ \E i \in 1..(Len(articleContent) - 1) :
          articleContent[i].kind = "newline" /\ articleContent[i + 1].kind = "newline"
    /\ ~HasMarker(processedContent)

(***************************************************************************)
(* Properties of parseStructuredResponse inside parseQuizResponse.         *)
(***************************************************************************)
\* the lines of the response that start with a question marker Q<N>.
MarkerLines == {i \in 1..Len(response.lines) : IsMarker(response.lines[i])}

\* the response holds no fenced JSON and no markdown question heading
StructuredOnly == ~HasFence(response.lines) /\ MdHeads(response.lines) = {}

\* C30: parseStructuredResponse yields one question per question marker:
\* text before the first marker is no question, and a response without a
\* marker, without fenced JSON and without a markdown heading gives
\* questions = [] with the error 'Failed to parse quiz response into a
\* structured format'.
C30_OneQuestionPerMarker ==
    (Done /\ StructuredOnly) =>
        LET structured == parseStructuredResponse(response)
        IN  /\ structured.tag = "ok" =>
                   Len(structured.v.questions) = Cardinality(MarkerLines)
            /\ MarkerLines = {} =>
                   result = Returned(ErrorQuiz(
                       "Failed to parse quiz response into a structured format"))

(***************************************************************************)
(* Properties of one EvaluationController.evaluateResponse run.            *)
(***************************************************************************)
\* C28: the progress values of the events of one evaluateResponse run do not
\* decrease in emission order (seen by every listener in the order of
\* emission), and complete or error is the last event of the run.
C28_ProgressNonDecreasing ==
    controller = "evaluation" =>
        \A l \in Listeners :
            \A i, j \in 1..Len(received[l]) :
                i < j =>
                    /\ received[l][i].status \notin {"complete", "error"}
                    /\ (received[l][i].progress.defined
                        /\ received[l][j].progress.defined)
                           => received[l][i].progress.v <= received[l][j].progress.v

(***************************************************************************)
(* Properties of the usage ledger under the daily ceilings.                *)
(***************************************************************************)
\* the days on which the ledger has an entry
LedgerDays == {IsoDay(usageHistory[i].timestamp) : i \in 1..Len(usageHistory)}

\* C24: with maxRequestsPerDay = N configured and usage tracking on, the
\* ledger never holds more than N entries of one day, however the running
\* sendMessageToClaude invocations interleave.
C24_RequestCeiling ==
    (TruthyNumber(currentBudget.maxRequestsPerDay) /\ TrackUsage(requestOptions)) =>
        \A day \in LedgerDays :
            Len(UsedOnDay(usageHistory, day)) <= currentBudget.maxRequestsPerDay.v

\* no timer is set: an invocation begins only after the one before it settled
SequentialRun == ~TruthyNumber(requestOptions.timeoutMs)

\* C25: in a sequential run with maxTokensPerDay configured and usage
\* tracking on, the totalTokens recorded for one day never sum to more than
\* maxTokensPerDay.
C25_TokenCeiling ==
    (/\ TruthyNumber(currentBudget.maxTokensPerDay)
     /\ TrackUsage(requestOptions)
     /\ SequentialRun) =>
        \A day \in LedgerDays :
            SumTotalTokens(UsedOnDay(usageHistory, day)) <= currentBudget.maxTokensPerDay.v

(***************************************************************************)
(* One request through a pipeline: QuizController.generateQuiz over        *)
(* QuizGenerationService, or EvaluationController.evaluateResponse over    *)
(* ResponseEvaluationService and EvaluationStorage.  The caches of the     *)
(* services are empty, so the call wrapper is called.                      *)
(***************************************************************************)
\* longest text answer of the model, in lines
MaxAnswerLines == 4

\* the lines of the answers that hold no fenced JSON
AnswerAlphabet ==
    { Blank, Text("Here is your quiz:"),
      Line("text", "Q1.", "", QText),
      Line("sttype", "Q2.", "Multiple Choice", QText),
      LetterOption(1), LetterOption(2), StAnswer("B"), StExplanation }

TextAnswers == {Response(ls, NoJson) : ls \in SeqsUpTo(AnswerAlphabet, MaxAnswerLines)}

\* response.content of the model's answer to a quiz prompt
ModelAnswers ==
    JsonResponses \cup {r \in FreeResponses : HasFence(r.lines)} \cup TextAnswers

\* response.content of the model's answer to an evaluation or follow-up prompt
ModelEvaluations ==
    { EvalResponse(<<FenceAtom>>, j) :
        j \in { MalformedEval, ScoresOnly, EmptyObject,
                [EmptyObject EXCEPT !.followUpQuestions =
                    FollowUpList("array", <<FollowUpNonObj("null")>>)],
                [EmptyObject EXCEPT !.followUpQuestions =
                    FollowUpList("array",
                        <<FollowUpObj(JStr(FollowUpText), JStr("Checks the key term"),
                                      JUndef, JStr("chlorophyll"))>>)] } }

\* What sendMessageToClaudeWithRetry rejects with: the budget refusal, the
\* timeout, or the classified error of the outbound call
WrapperErrors ==
    {BudgetError("daily request limit"), TimeoutError}
    \cup {classifyApiError(e) : e \in ApiErrors \cup {StorageError}}

\* the request of the evaluation pipeline, and what the storage holds
\* before it
RequestQuestionId == "question-1"
EarlierEvaluations ==
    { <<>>,
      <<StoredEvaluation("earlier", RequestQuestionId, 7)>>,
      <<StoredEvaluation("earlier", "question-2", 7)>> }

notRunVars == <<quizVars, evalVars, clientVars, parserVars, preprocessVars, cacheVars>>

InitPipeline ==
    /\ controller \in {"quiz", "evaluation"}
    /\ listeners \in ListenerArrays
    /\ received = [l \in Listeners |-> <<>>]
    /\ logged = {}
    /\ runPc = "idle"
    /\ runScore = 0
    /\ runResponse = NoRunResponse
    /\ wrapperError = NoError
    /\ caughtError = NoError
    /\ modelAnswer = Response(<<>>, NoJson)
    /\ runQuiz = NoRunQuiz
    /\ evaluationsBefore \in
           IF controller = "evaluation" THEN EarlierEvaluations ELSE {<<>>}
    /\ storedEvaluations = evaluationsBefore
    /\ QuizIdle
    /\ EvalIdle
    /\ ClientIdle
    /\ ParserIdle
    /\ PreprocessIdle
    /\ CacheIdle

\* the catch block of the controller receives error
Caught(error) ==
    /\ caughtError' = error
    /\ \E behaviour \in Behaviours : Catch(error, behaviour)

\* this.service.generateQuiz rejects: sendMessageToClaudeWithRetry rejected
\* with error
QuizServiceRejects(error) ==
    /\ controller = "quiz"
    /\ runPc = "generating"
    /\ wrapperError' = error
    /\ Caught(generateQuizRejection(error))
    /\ UNCHANGED <<controller, runScore, modelAnswer, runQuiz, storedEvaluations,
                   evaluationsBefore>>
    /\ UNCHANGED notRunVars

\* this.service.generateQuiz resolves: the model answered, the service
\* parsed the answer, and generateQuiz goes on to its return
QuizServiceResolves ==
    /\ controller = "quiz"
    /\ runPc = "generating"
    /\ \E answer \in ModelAnswers :
          LET apiResponse == serviceParseQuizResponse(answer)
          IN  /\ modelAnswer' = answer
              /\ IF apiResponse.hasQuestions \/ apiResponse.hasRaw
                 THEN /\ runQuiz' = controllerQuiz(apiResponse, answer)
                      /\ caughtError' = caughtError
                      /\ \E behaviour \in Behaviours :
                            Continue(Emitted(<<>>, behaviour), "returned",
                                     SuccessResponse, behaviour)
                 ELSE /\ runQuiz' = runQuiz
                      /\ Caught(InvalidApiResponse)
    /\ UNCHANGED <<controller, runScore, wrapperError, storedEvaluations,
                   evaluationsBefore>>
    /\ UNCHANGED notRunVars

\* this.service.evaluateResponse rejects: sendMessageToClaudeWithRetry
\* rejected with error
EvaluationServiceRejects(error) ==
    /\ controller = "evaluation"
    /\ runPc = "evaluating"
    /\ wrapperError' = error
    /\ Caught(evaluateResponseRejection(error))
    /\ UNCHANGED <<controller, runScore, modelAnswer, runQuiz, storedEvaluations,
                   evaluationsBefore>>
    /\ UNCHANGED notRunVars

ParseError(prefix) == ErrorOf(<<Word(prefix), Word("failed")>>)

\* this.service.evaluateResponse settles after the model answered:
\* parseEvaluationResponse throws inside the service's try block, or the
\* result is returned and evaluateResponse goes on to saveEvaluation
EvaluationServiceSettles(resp) ==
    LET parsed == parseEvaluationResponse(resp)
    IN  /\ controller = "evaluation"
        /\ runPc = "evaluating"
        /\ IF parsed.tag = "threw"
           THEN /\ Caught(evaluateResponseRejection(
                       ParseError("Failed to parse evaluation response:")))
                /\ UNCHANGED runScore
           ELSE /\ runScore' = parsed.v.scores.overall
                /\ caughtError' = caughtError
                /\ \E behaviour \in Behaviours :
                      Continue(Emitted(<<"storing_evaluation">>, behaviour),
                               "storing", runResponse, behaviour)
        /\ UNCHANGED <<controller, wrapperError, modelAnswer, runQuiz,
                       storedEvaluations, evaluationsBefore>>
        /\ UNCHANGED notRunVars

\* EvaluationStorage.saveEvaluation resolves
EvaluationSaved ==
    /\ controller = "evaluation"
    /\ runPc = "storing"
    /\ storedEvaluations' =
           saveEvaluation(storedEvaluations,
                          StoredEvaluation("this", RequestQuestionId, runScore))
    /\ \E behaviour \in Behaviours :
          IF runScore < 7
          THEN Continue(Emitted(<<"generating_follow_up">>, behaviour),
                        "generating_follow_up", runResponse, behaviour)
          ELSE Continue(Emitted(<<"complete">>, behaviour),
                        "returned", SuccessResponse, behaviour)
    /\ UNCHANGED <<controller, runScore, wrapperError, caughtError, modelAnswer,
                   runQuiz, evaluationsBefore>>
    /\ UNCHANGED notRunVars

\* EvaluationStorage.saveEvaluation rejects: chrome.storage throws before
\* the evaluations array is set, or, when a tab id is given, when the
\* reference of the tab is set after it
SaveEvaluationFails(afterSet) ==
    /\ controller = "evaluation"
    /\ runPc = "storing"
    /\ storedEvaluations' =
           IF afterSet
           THEN saveEvaluation(storedEvaluations,
                               StoredEvaluation("this", RequestQuestionId, runScore))
           ELSE storedEvaluations
    /\ Caught(saveEvaluationRejection(StorageError))
    /\ UNCHANGED <<controller, runScore, wrapperError, modelAnswer, runQuiz,
                   evaluationsBefore>>
    /\ UNCHANGED notRunVars

\* this.service.generateFollowUpQuestions rejects:
\* sendMessageToClaudeWithRetry rejected with error
FollowUpServiceRejects(error) ==
    /\ controller = "evaluation"
    /\ runPc = "generating_follow_up"
    /\ wrapperError' = error
    /\ Caught(generateFollowUpQuestionsRejection(error))
    /\ UNCHANGED <<controller, runScore, modelAnswer, runQuiz, storedEvaluations,
                   evaluationsBefore>>
    /\ UNCHANGED notRunVars

\* this.service.generateFollowUpQuestions settles after the model answered
FollowUpServiceSettles(resp) ==
    /\ controller = "evaluation"
    /\ runPc = "generating_follow_up"
    /\ IF parseFollowUpResponse(resp).tag = "threw"
       THEN Caught(generateFollowUpQuestionsRejection(
                ParseError("Failed to parse follow-up response:")))
       ELSE /\ runPc' = "storing_follow_up"
            /\ UNCHANGED <<listeners, received, logged, runResponse, caughtError>>
    /\ UNCHANGED <<controller, runScore, wrapperError, modelAnswer, runQuiz,
                   storedEvaluations, evaluationsBefore>>
    /\ UNCHANGED notRunVars

\* EvaluationStorage.saveFollowUpQuestions resolves
FollowUpSaved ==
    /\ controller = "evaluation"
    /\ runPc = "storing_follow_up"
    /\ storedEvaluations' = saveFollowUpQuestions(storedEvaluations, "this")
    /\ \E behaviour \in Behaviours :
          Continue(Emitted(<<"complete">>, behaviour),
                   "returned", SuccessResponse, behaviour)
    /\ UNCHANGED <<controller, runScore, wrapperError, caughtError, modelAnswer,
                   runQuiz, evaluationsBefore>>
    /\ UNCHANGED notRunVars

\* EvaluationStorage.saveFollowUpQuestions rejects: chrome.storage throws
SaveFollowUpFails ==
    /\ controller = "evaluation"
    /\ runPc = "storing_follow_up"
    /\ Caught(saveFollowUpQuestionsRejection(StorageError))
    /\ UNCHANGED <<controller, runScore, wrapperError, modelAnswer, runQuiz,
                   storedEvaluations, evaluationsBefore>>
    /\ UNCHANGED notRunVars

NextPipeline ==
    \/ GenerateQuiz
    \/ \E error \in WrapperErrors : QuizServiceRejects(error)
    \/ QuizServiceResolves
    \/ EvaluateResponse
    \/ \E error \in WrapperErrors : EvaluationServiceRejects(error)
    \/ \E resp \in ModelEvaluations : EvaluationServiceSettles(resp)
    \/ EvaluationSaved
    \/ \E afterSet \in BOOLEAN : SaveEvaluationFails(afterSet)
    \/ \E error \in WrapperErrors : FollowUpServiceRejects(error)
    \/ \E resp \in ModelEvaluations : FollowUpServiceSettles(resp)
    \/ FollowUpSaved
    \/ SaveFollowUpFails

SpecPipeline == InitPipeline /\ [][NextPipeline]_vars

(***************************************************************************)
(* Properties of the pipelines.                                            *)
(***************************************************************************)
\* C23: a budget error or classified outbound-call error that the call
\* wrapper raises reaches the controller with its kind and its retryable
\* flag, in the quiz pipeline and in the evaluation pipeline, and the
\* controller answers with an error event and success = false; it does not
\* reject.
C23_TypedErrorReachesController ==
    wrapperError.kind # "null" =>
        /\ caughtError.kind = "ClaudeApiError"
        /\ caughtError.type = wrapperError.type
        /\ caughtError.retryable = wrapperError.retryable
        /\ runPc = "returned"
        /\ ~runResponse.success
        /\ \A l \in Range(listeners) :
              /\ Len(received[l]) > 0
              /\ received[l][Len(received[l])].status = "error"

\* the question object is one that validateQuiz keeps and leaves as it is:
\* a numbered question of a standard type, a multiple-choice question with
\* two options or more, a true/false question with the answer True or False
IsValidated(question) ==
    /\ question.isObject
    /\ question.id.t = "number" /\ question.id.n # 0
    /\ question.type.t = "string" /\ question.type.s \in QuestionTypes
    /\ question.text.t = "string"
    /\ question.correctAnswer.t = "string"
    /\ question.type.s = "multiple_choice" =>
           question.options.t = "array" /\ Len(question.options.a) >= 2
    /\ question.type.s = "true_false" =>
           question.correctAnswer.s \in {"True", "False"}

\* C26: a quiz that QuizController.generateQuiz returns with success = true
\* has passed the parser's normalization and validation: it has validated
\* questions and no error, or no question and an error.
C26_ValidatedQuiz ==
    (controller = "quiz" /\ runPc = "returned" /\ runResponse.success) =>
        \/ /\ Len(runQuiz.questions) > 0
           /\ ~runQuiz.hasError
           /\ \A i \in 1..Len(runQuiz.questions) :
                 IsValidated(runQuiz.questions[i])
        \/ Len(runQuiz.questions) = 0 /\ runQuiz.hasError

\* C29: when EvaluationController.evaluateResponse resolves with
\* success = false, the stored evaluations are those from before the call.
C29_NothingPersistedOnFailure ==
    (controller = "evaluation" /\ runPc = "returned" /\ ~runResponse.success) =>
        storedEvaluations = evaluationsBefore

(***************************************************************************)
(* ResponseEvaluationService.evaluateResponse and its cache.               *)
(***************************************************************************)
\* the calls of evaluateResponse in a run
MaxRequests == 2

\* the last reading of the clock, in milliseconds
MaxCacheClock == 120001

\* the clock moves by a minute or by a minute and a millisecond
ClockSteps == {60000, 60001}

\* options.cacheExpiry, in minutes
CacheExpiries == {1, 2}

\* two articles and two settings of the prompt options (feedbackDetail)
ArticleContents == {"article-1", "article-2"}
PromptOptions == {"concise", "detailed"}

\* the questions "q?" and "r?"
CacheQuestions == {<<113, 63>>, <<114, 63>>}

\* the user responses "az", " AZ" and "b["
UserResponses == {<<97, 122>>, <<32, 65, 90>>, <<98, 91>>}

\* expectedElements ["f", " E"], ["e", "f"] and ["f"]
ElementLists == {<< <<102>>, <<32, 69>> >>, << <<101>>, <<102>> >>, << <<102>> >>}

\* EvaluationPromptType.FACTUAL = 'factual' and ANALYTICAL = 'analytical'
PromptTypes ==
    {<<102, 97, 99, 116, 117, 97, 108>>,
     <<97, 110, 97, 108, 121, 116, 105, 99, 97, 108>>}

\* the request the others are variations of
BaseRequest ==
    EvaluationRequest("article-1", <<113, 63>>, <<97, 122>>,
                      << <<102>>, <<32, 69>> >>,
                      <<102, 97, 99, 116, 117, 97, 108>>, "concise")

RequestFields ==
    {"articleContent", "question", "userResponse", "expectedElements",
     "questionType", "promptOptions"}

\* the base request and every request that differs from it in one argument
EvaluationRequests ==
    {req \in {EvaluationRequest(a, q, u, e, t, o) :
                 a \in ArticleContents, q \in CacheQuestions, u \in UserResponses,
                 e \in ElementLists, t \in PromptTypes, o \in PromptOptions} :
        Cardinality({f \in RequestFields : req[f] # BaseRequest[f]}) <= 1}

InitCache ==
    /\ evaluationCache = {}
    /\ cacheNow = 0
    /\ cacheExpiry \in CacheExpiries
    /\ inFlight = <<>>
    /\ servedResult = Served(NoRequest, "none", NoRequest, 0)
    /\ requestsMade = 0
    /\ QuizIdle
    /\ EvalIdle
    /\ ClientIdle
    /\ ParserIdle
    /\ PreprocessIdle
    /\ ControllerIdle
    /\ PipelineIdle

\* evaluateResponse up to await sendMessageToClaudeWithRetry: the cached
\* result is returned, or the request goes out
ServiceEvaluateResponse(req) ==
    /\ requestsMade < MaxRequests
    /\ requestsMade' = requestsMade + 1
    /\ LET cached == getFromCache(evaluationCache, KeyOf(req), cacheNow, cacheExpiry)
       IN  /\ evaluationCache' = cached.cache
           /\ IF cached.hit
              THEN /\ servedResult' = Served(req, "cached", cached.item.data.producedFor,
                                             cacheNow - cached.item.timestamp)
                   /\ inFlight' = inFlight
              ELSE /\ inFlight' = Append(inFlight, req)
                   /\ servedResult' = servedResult
    /\ UNCHANGED <<cacheNow, cacheExpiry>>
    /\ UNCHANGED notCacheVars

Without(seq, i) == [j \in 1..(Len(seq) - 1) |-> IF j < i THEN seq[j] ELSE seq[j + 1]]

\* the model answers the i-th request in flight and parseEvaluationResponse
\* returns: the result is cached and returned
EvaluationAnswered(i) ==
    /\ i \in 1..Len(inFlight)
    /\ evaluationCache' = saveToCache(evaluationCache, KeyOf(inFlight[i]), inFlight[i],
                                      cacheNow, cacheExpiry)
    /\ servedResult' = Served(inFlight[i], "new", inFlight[i], 0)
    /\ inFlight' = Without(inFlight, i)
    /\ UNCHANGED <<cacheNow, cacheExpiry, requestsMade>>
    /\ UNCHANGED notCacheVars

\* sendMessageToClaudeWithRetry rejects or parseEvaluationResponse throws:
\* the catch block throws, nothing is cached
EvaluationFailed(i) ==
    /\ i \in 1..Len(inFlight)
    /\ servedResult' = Served(inFlight[i], "threw", NoRequest, 0)
    /\ inFlight' = Without(inFlight, i)
    /\ UNCHANGED <<evaluationCache, cacheNow, cacheExpiry, requestsMade>>
    /\ UNCHANGED notCacheVars

\* time passes
CacheTick(step) ==
    /\ cacheNow + step <= MaxCacheClock
    /\ cacheNow' = cacheNow + step
    /\ UNCHANGED <<evaluationCache, cacheExpiry, inFlight, servedResult, requestsMade>>
    /\ UNCHANGED notCacheVars

NextCache ==
    \/ \E req \in EvaluationRequests : ServiceEvaluateResponse(req)
    \/ \E i \in 1..MaxRequests : EvaluationAnswered(i)
    \/ \E i \in 1..MaxRequests : EvaluationFailed(i)
    \/ \E step \in ClockSteps : CacheTick(step)

SpecCache == InitCache /\ [][NextCache]_vars

\* the two requests agree in everything the evaluation depends on: the
\* article, the prompt options and the question type, and the question, the
\* response and the expected elements up to trim and case
SameEvaluation(a, b) ==
    /\ a.articleContent = b.articleContent
    /\ a.promptOptions = b.promptOptions
    /\ a.questionType = b.questionType
    /\ LowerCodes(TrimCodes(a.question)) = LowerCodes(TrimCodes(b.question))
    /\ LowerCodes(TrimCodes(a.userResponse)) = LowerCodes(TrimCodes(b.userResponse))
    /\ NormalizedElements(a.expectedElements) = NormalizedElements(b.expectedElements)

\* C27: evaluateResponse serves a result from its cache only if the entry
\* was produced by a request with the same article content, question, user
\* response (up to trim and case), expected elements, question type and
\* prompt options, and only while the entry is no older than cacheExpiry
\* minutes.
C27_CacheServesSameRequest ==
    servedResult.outcome = "cached" =>
        /\ SameEvaluation(servedResult.request, servedResult.producedFor)
        /\ servedResult.age <= expiryMs(cacheExpiry)

=============================================================================
